---------------------------- MODULE Spec2Model ----------------------------
(***************************************************************************)
(* AbstractManager: cache-aside access to a relational store (gorm) and a  *)
(* key-value cache (redis).  The module models the cache write path        *)
(* (service/writedown_single.go), the single-key lookups                   *)
(* (service/lookup_single.go, http_router/cache_get_router_group.go) and   *)
(* the write handler (http_router/cache_set_router_group.go).              *)
(*                                                                         *)
(* Keys are sequences of one-character strings, so that "lock:" + key,     *)
(* key + ":version" and strings.Split(key, ":") are computed as the code   *)
(* computes them.  A cache entry is [val, ttl, by]: the payload bytes, the *)
(* expiration the entry was given (0: none) and, as a history field, the   *)
(* call that wrote it.                                                     *)
(***************************************************************************)
EXTENDS Integers, Sequences, FiniteSets, TLC

VARIABLES
    redis,      \* the cache store: key -> [val, ttl, by], DOMAIN = keys present
    db,         \* the relational store: id -> row, DOMAIN = ids present
    pc,         \* WritedownSingleWithLock: position of each caller
    result,     \* WritedownSingleWithLock: what each caller returned
    loaded,     \* WritedownSingleWithLock: local `data` of each caller
    loads,      \* number of GetSingle executions by WritedownSingleWithLock
    ttlElapsed, \* history: a lock token expired before its holder deleted it
    vpc,        \* WritedownSingleWithVersion: position of each caller
    vreq,       \* WritedownSingleWithVersion: arguments of each call
    vdirty,     \* WATCH: a watched key was modified since the caller's WATCH
    vresult,    \* WritedownSingleWithVersion: what each call returned
    maxOk,      \* history: highest version written successfully so far
    last,       \* the last operation of the handlers and what it returned
    pend,       \* goroutines started by WritedownSingleAsync, not yet run
    scannable,  \* whether *T implements encoding.BinaryUnmarshaler
    hitRefresh, \* LookupRouterGroup.cacheHitRefresh
    committed   \* history: the rows a store transaction has committed

vars == <<redis, db, pc, result, loaded, loads, ttlElapsed,
          vpc, vreq, vdirty, vresult, maxOk, last, pend, scannable, hitRefresh,
          committed>>

lockVars == <<pc, result, loaded, loads, ttlElapsed>>
verVars == <<vpc, vreq, vdirty, vresult, maxOk>>
handlerVars == <<last, pend, scannable, hitRefresh, committed>>

-----------------------------------------------------------------------------
(* Bounds of the model *)

NumCallers == 3

NumWriters == 2

MaxVersion == 2

MaxId == 2

MaxPending == 1

\* the longest data slice of a batch write
MaxBatch == 3

\* the longest predicate list and filter list
MaxFilters == 2

\* the width in bits of the loop counters of the batch writers
IntBits == 4

(* Program constants *)

DefaultExpiration == 3600

DefaultLockTimeout == 5

OneHour == 3600

UintBits == 32

\* service_model.go: batchSize = 100 when the caller gives none
DefaultBatchSize == 100

\* user.go: req.BatchSize = 500 when the request gives none
SyncBatchSize == 500

-----------------------------------------------------------------------------
(* Records (the generic T, here model.User reduced to id and age) *)

Ages == {25, 40}

Ids == 1..MaxId

Records == [id : Ids, age : Ages]

NilData == [nil |-> TRUE]

\* the records of user 1, which callers store under user:1
VData == {r \in Records : r.id = 1}

-----------------------------------------------------------------------------
(* Serialisation *)

\* json.Marshal of a record whose age field carries the tag json:"-"
MarshalJSON_OmitsAge(r) ==
    [enc |-> "json", obj |-> <<<<"id", r.id>>>>]

\* json.Marshal of a record: a JSON object, its members in field order
MarshalJSON(r) ==
    [enc |-> "json", obj |-> <<<<"id", r.id>>, <<"age", r.age>>>>]

\* the value of member `name` of a JSON object, 0 (the zero value) when absent
JSONField(obj, name) ==
    IF \E i \in 1..Len(obj) : obj[i][1] = name
    THEN obj[CHOOSE i \in 1..Len(obj) : obj[i][1] = name][2]
    ELSE 0

\* json.Unmarshal that finds no member for the age field
UnmarshalJSON_LosesAge(p) ==
    IF p.enc = "json"
    THEN [ok |-> TRUE, rec |-> [id |-> JSONField(p.obj, "id"), age |-> 0]]
    ELSE [ok |-> FALSE, rec |-> NilData]

\* json.Unmarshal into a T: fails on anything that is not a JSON object
UnmarshalJSON(p) ==
    IF p.enc = "json"
    THEN [ok |-> TRUE,
          rec |-> [id |-> JSONField(p.obj, "id"), age |-> JSONField(p.obj, "age")]]
    ELSE [ok |-> FALSE, rec |-> NilData]

\* redis stores an int64 argument as its decimal text
FormatInt(n) == [enc |-> "int", n |-> n]

\* StringCmd.Int64: strconv.ParseInt of the payload
ParseInt(p) ==
    IF p.enc = "int" THEN [ok |-> TRUE, n |-> p.n] ELSE [ok |-> FALSE, n |-> 0]

\* fmt.Sprintf("%d", time.Now().UnixNano()): a text the code never reads back
LockValue == [enc |-> "time"]

-----------------------------------------------------------------------------
(* Keys *)

LockPrefix == <<"l", "o", "c", "k", ":">>

VersionSuffix == <<":", "v", "e", "r", "s", "i", "o", "n">>

UserKey1 == <<"u", "s", "e", "r", ":", "1">>

LockKeyOf(key) == LockPrefix \o key

VersionKeyOf(key) == key \o VersionSuffix

-----------------------------------------------------------------------------
(* The cache store's commands *)

Entry(val, ttl, by) == [val |-> val, ttl |-> ttl, by |-> by]

RedisHas(rd, k) == k \in DOMAIN rd

RedisPut(rd, k, e) == [x \in DOMAIN rd \cup {k} |-> IF x = k THEN e ELSE rd[x]]

RedisDel(rd, k) == [x \in DOMAIN rd \ {k} |-> rd[x]]

\* SET key value EX ttl
RedisSet(rd, k, e) == [redis |-> RedisPut(rd, k, e), ok |-> TRUE]

\* SET key value EX ttl NX: no write and no error when the key exists
RedisSetNX_Always(rd, k, e) == [redis |-> RedisPut(rd, k, e), ok |-> TRUE]

RedisSetNX(rd, k, e) ==
    IF RedisHas(rd, k)
    THEN [redis |-> rd, ok |-> FALSE]
    ELSE [redis |-> RedisPut(rd, k, e), ok |-> TRUE]

\* SET key value EX ttl XX: no write and no error when the key is absent
RedisSetXX(rd, k, e) ==
    IF RedisHas(rd, k)
    THEN [redis |-> RedisPut(rd, k, e), ok |-> TRUE]
    ELSE [redis |-> rd, ok |-> FALSE]

-----------------------------------------------------------------------------
(* service/writedown_single.go: WritedownSingle *)

Opts(exp, ow, nx, xx) == [Expiration |-> exp, Overwrite |-> ow, NX |-> nx, XX |-> xx]

NilOpts == [nil |-> TRUE]

DefaultOpts == Opts(OneHour, TRUE, FALSE, FALSE)

\* the cache after the call, and the error returned ("nil": none)
WritedownSingle(rd, key, data, o, by) ==
    LET opts == IF o = NilOpts THEN DefaultOpts ELSE o IN
    IF data = NilData
    THEN [redis |-> rd, err |-> "marshal"]
    ELSE LET e == Entry(MarshalJSON(data), opts.Expiration, by)
             cmd == IF opts.NX THEN RedisSetNX(rd, key, e)
                    ELSE IF opts.XX THEN RedisSetXX(rd, key, e)
                    ELSE RedisSet(rd, key, e)
         IN [redis |-> cmd.redis, err |-> "nil"]

\* a GetSingle that hands back the zero-valued record when First finds no row
GetSingle_IgnoresNotFound(store, id) ==
    IF id \in DOMAIN store
    THEN [data |-> store[id], err |-> "nil"]
    ELSE [data |-> [id |-> id, age |-> 0], err |-> "nil"]

\* service/get_single.go lines 20-70
GetSingle(store, id) ==
    IF id \in DOMAIN store
    THEN [data |-> store[id], err |-> "nil"]
    ELSE [data |-> NilData, err |-> "record not found"]

-----------------------------------------------------------------------------
(* service/writedown_single.go: WritedownSingleWithLock, one caller per c,  *)
(* all on UserKey1 with queryFunc = Where("id = ?", 1)                      *)

Callers == 1..NumCallers

NoResult == [data |-> NilData, err |-> "pending"]

\* rdb.Get(ctx, key).Bytes() followed by json.Unmarshal
CacheRead(rd, key) ==
    IF RedisHas(rd, key) THEN UnmarshalJSON(rd[key].val)
    ELSE [ok |-> FALSE, rec |-> NilData]

LockOff ==
    /\ pc = <<>>
    /\ result = <<>>
    /\ loaded = <<>>
    /\ loads = 0
    /\ ttlElapsed = FALSE

VersionOff ==
    /\ vpc = <<>>
    /\ vreq = <<>>
    /\ vdirty = <<>>
    /\ vresult = <<>>
    /\ maxOk = 0

\* what the last operation was given and what it answered
Last(op, key, data, via, sync, err) ==
    [op |-> op, key |-> key, data |-> data, via |-> via, sync |-> sync, err |-> err]

NoLast == Last("none", <<>>, NilData, "none", FALSE, "nil")

HandlerOff ==
    /\ last = NoLast
    /\ pend = {}
    /\ scannable = FALSE
    /\ hitRefresh = FALSE
    /\ committed = {}

LockInit ==
    /\ redis = <<>>
    /\ \E present \in BOOLEAN, a \in Ages :
          db = IF present THEN (1 :> [id |-> 1, age |-> a]) ELSE <<>>
    /\ pc = [c \in Callers |-> "get"]
    /\ result = [c \in Callers |-> NoResult]
    /\ loaded = [c \in Callers |-> NilData]
    /\ loads = 0
    /\ ttlElapsed = FALSE
    /\ VersionOff
    /\ HandlerOff

\* lines 78-83: the first read of the cache
LockGet(c) ==
    /\ pc[c] = "get"
    /\ LET r == CacheRead(redis, UserKey1) IN
         IF r.ok
         THEN /\ result' = [result EXCEPT ![c] = [data |-> r.rec, err |-> "nil"]]
              /\ pc' = [pc EXCEPT ![c] = "done"]
         ELSE /\ pc' = [pc EXCEPT ![c] = "setnx"]
              /\ UNCHANGED result
    /\ UNCHANGED <<redis, db, loaded, loads, ttlElapsed, verVars, handlerVars>>

\* lines 85-88, 98: SETNX of the lock; on success the caller enters GetSingle
LockSetNX(c) ==
    /\ pc[c] = "setnx"
    /\ LET cmd == RedisSetNX(redis, LockKeyOf(UserKey1),
                             Entry(LockValue, DefaultLockTimeout, c)) IN
         /\ redis' = cmd.redis
         /\ pc' = [pc EXCEPT ![c] = IF cmd.ok THEN "loading" ELSE "sleep"]
    /\ UNCHANGED <<db, result, loaded, loads, ttlElapsed, verVars, handlerVars>>

\* lines 89-96: after the 50 ms sleep, one more read of the cache
LockRecheck(c) ==
    /\ pc[c] = "sleep"
    /\ LET r == CacheRead(redis, UserKey1) IN
         result' = [result EXCEPT ![c] =
                       IF r.ok THEN [data |-> r.rec, err |-> "nil"]
                       ELSE [data |-> NilData, err |-> "lock contention"]]
    /\ pc' = [pc EXCEPT ![c] = "done"]
    /\ UNCHANGED <<redis, db, loaded, loads, ttlElapsed, verVars, handlerVars>>

\* lines 100-103: GetSingle returns
LockLoad(c) ==
    /\ pc[c] = "loading"
    /\ loads' = loads + 1
    /\ LET g == GetSingle(db, 1) IN
         IF g.err = "nil"
         THEN /\ loaded' = [loaded EXCEPT ![c] = g.data]
              /\ pc' = [pc EXCEPT ![c] = "write"]
              /\ UNCHANGED result
         ELSE /\ result' = [result EXCEPT ![c] = [data |-> NilData, err |-> g.err]]
              /\ pc' = [pc EXCEPT ![c] = "unlock"]
              /\ UNCHANGED loaded
    /\ UNCHANGED <<redis, db, ttlElapsed, verVars, handlerVars>>

\* lines 105-108: WritedownSingle of the loaded record
LockWrite(c) ==
    /\ pc[c] = "write"
    /\ LET w == WritedownSingle(redis, UserKey1, loaded[c],
                                Opts(DefaultExpiration, TRUE, FALSE, FALSE), c) IN
         /\ redis' = w.redis
         /\ result' = [result EXCEPT ![c] =
                          IF w.err = "nil" THEN [data |-> loaded[c], err |-> "nil"]
                          ELSE [data |-> NilData, err |-> w.err]]
    /\ pc' = [pc EXCEPT ![c] = "unlock"]
    /\ UNCHANGED <<db, loaded, loads, ttlElapsed, verVars, handlerVars>>

\* line 98: the deferred rdb.Del(ctx, lockKey), whoever holds the token now
LockDel(c) ==
    /\ pc[c] = "unlock"
    /\ redis' = RedisDel(redis, LockKeyOf(UserKey1))
    /\ pc' = [pc EXCEPT ![c] = "done"]
    /\ UNCHANGED <<db, result, loaded, loads, ttlElapsed, verVars, handlerVars>>

\* a token that redis keeps for ever
LockExpire_Never ==
    /\ FALSE
    /\ UNCHANGED vars

\* lockTimeout elapses: redis drops the token
LockExpire ==
    /\ RedisHas(redis, LockKeyOf(UserKey1))
    /\ redis[LockKeyOf(UserKey1)].ttl > 0
    /\ redis' = RedisDel(redis, LockKeyOf(UserKey1))
    /\ ttlElapsed' = TRUE
    /\ UNCHANGED <<db, pc, result, loaded, loads, verVars, handlerVars>>

LockStep ==
    \E c \in Callers :
        \/ LockGet(c)
        \/ LockSetNX(c)
        \/ LockRecheck(c)
        \/ LockLoad(c)
        \/ LockWrite(c)
        \/ LockDel(c)

LockNext == LockStep \/ LockExpire

LockSpec == LockInit /\ [][LockNext]_vars

\* every call runs to its return; the TTL is not bound to elapse
FairLockSpec == LockSpec /\ WF_vars(LockStep)

\* the process of a caller that holds the lock dies before its deferred Del
\* (line 98) runs
LockCrash(c) ==
    /\ pc[c] \in {"loading", "write", "unlock"}
    /\ pc' = [pc EXCEPT ![c] = "crashed"]
    /\ UNCHANGED <<redis, db, result, loaded, loads, ttlElapsed, verVars, handlerVars>>

CrashNext == LockNext \/ \E c \in Callers : LockCrash(c)

\* redis drops a token whose TTL has elapsed without any caller's help; the
\* callers are not bound to run
CrashLockSpec == LockInit /\ [][CrashNext]_vars /\ WF_vars(LockExpire)

-----------------------------------------------------------------------------
(* service/writedown_single.go: WritedownSingleWithVersion, one call per    *)
(* writer w, all on UserKey1.  rdb.Watch issues WATCH key, key:version,     *)
(* runs the callback (GET, then MULTI/SET/SET/EXEC) and returns its error.  *)

Writers == 1..NumWriters

Versions == 1..MaxVersion

NoReq == [version |-> 0, data |-> NilData, floor |-> 0]

VKey == VersionKeyOf(UserKey1)

Watching(w) == vpc[w] \in {"watched", "exec"}

\* a write to a watched key marks every open WATCH
Touched == [w \in Writers |-> vdirty[w] \/ Watching(w)]

\* the value and the marker as one earlier successful call left them
WrittenPair(r, v, by) ==
    (UserKey1 :> Entry(MarshalJSON(r), DefaultExpiration, by)) @@
    (VKey :> Entry(FormatInt(v), DefaultExpiration, by))

VerInit ==
    /\ \E v0 \in 0..MaxVersion :
          /\ redis = IF v0 = 0 THEN <<>> ELSE WrittenPair([id |-> 1, age |-> 25], v0, 0)
          /\ maxOk = v0
    /\ db = <<>>
    /\ vpc = [w \in Writers |-> "idle"]
    /\ vreq = [w \in Writers |-> NoReq]
    /\ vdirty = [w \in Writers |-> FALSE]
    /\ vresult = [w \in Writers |-> "pending"]
    /\ LockOff
    /\ HandlerOff

\* lines 120-129: marshalForRedis, then WATCH key, key:version
VerWatch(w) ==
    /\ vpc[w] = "idle"
    /\ \E v \in Versions, d \in VData \cup {NilData} :
          IF d = NilData
          THEN /\ vresult' = [vresult EXCEPT ![w] = "marshal"]
               /\ vpc' = [vpc EXCEPT ![w] = "done"]
               /\ UNCHANGED <<vreq, vdirty>>
          ELSE /\ vreq' = [vreq EXCEPT ![w] = [version |-> v, data |-> d, floor |-> maxOk]]
               /\ vdirty' = [vdirty EXCEPT ![w] = FALSE]
               /\ vpc' = [vpc EXCEPT ![w] = "watched"]
               /\ UNCHANGED vresult
    /\ UNCHANGED <<redis, db, maxOk, lockVars, handlerVars>>

\* the comparison of line 134 with > for >=
VersionOutdated_Strict(current, version) == current > version

\* line 134: currentVersion >= version
VersionOutdated(current, version) == current >= version

\* lines 130-136: tx.Get(versionKey).Int64() and the version check
VerGet(w) ==
    /\ vpc[w] = "watched"
    /\ IF ~RedisHas(redis, VKey)
       THEN /\ vpc' = [vpc EXCEPT ![w] = "exec"]
            /\ UNCHANGED vresult
       ELSE LET cur == ParseInt(redis[VKey].val) IN
            IF ~cur.ok
            THEN /\ vresult' = [vresult EXCEPT ![w] = "parse"]
                 /\ vpc' = [vpc EXCEPT ![w] = "done"]
            ELSE IF VersionOutdated(cur.n, vreq[w].version)
            THEN /\ vresult' = [vresult EXCEPT ![w] = "outdated"]
                 /\ vpc' = [vpc EXCEPT ![w] = "done"]
            ELSE /\ vpc' = [vpc EXCEPT ![w] = "exec"]
                 /\ UNCHANGED vresult
    /\ UNCHANGED <<redis, db, vreq, vdirty, maxOk, lockVars, handlerVars>>

\* EXEC that runs the queued SETs whatever happened to the watched keys
ExecAborts_NoWatch(w) == FALSE

\* EXEC returns nil (redis.TxFailedErr) when a watched key was modified
ExecAborts(w) == vdirty[w]

\* lines 139-140: the two queued SETs, applied by EXEC as one
ExecWrites(w) ==
    RedisPut(RedisPut(redis, UserKey1,
                      Entry(MarshalJSON(vreq[w].data), DefaultExpiration, w)),
             VKey, Entry(FormatInt(vreq[w].version), DefaultExpiration, w))

\* lines 138-143: MULTI, SET key, SET key:version, EXEC
VerExec(w) ==
    /\ vpc[w] = "exec"
    /\ IF ExecAborts(w)
       THEN /\ vresult' = [vresult EXCEPT ![w] = "txfailed"]
            /\ UNCHANGED <<redis, vdirty, maxOk>>
       ELSE /\ redis' = ExecWrites(w)
            /\ vresult' = [vresult EXCEPT ![w] = "ok"]
            /\ vdirty' = [x \in Writers |-> IF x = w THEN vdirty[w] ELSE Touched[x]]
            /\ maxOk' = IF vreq[w].version > maxOk THEN vreq[w].version ELSE maxOk
    /\ vpc' = [vpc EXCEPT ![w] = "done"]
    /\ UNCHANGED <<db, vreq, lockVars, handlerVars>>

\* a connection that breaks after the first queued SET was applied alone
VerExecFail_Partial(w) ==
    /\ vpc[w] = "exec"
    /\ redis' = RedisPut(redis, UserKey1,
                         Entry(MarshalJSON(vreq[w].data), DefaultExpiration, w))
    /\ vresult' = [vresult EXCEPT ![w] = "ioerror"]
    /\ vpc' = [vpc EXCEPT ![w] = "done"]
    /\ UNCHANGED <<db, vreq, vdirty, maxOk, lockVars, handlerVars>>

\* line 143: TxPipelined returns an error of the connection: either the
\* MULTI never reached EXEC and its queued commands are discarded, or EXEC
\* ran and only its reply was lost
VerExecFail(w) ==
    /\ vpc[w] = "exec"
    /\ \E applied \in BOOLEAN :
          IF applied /\ ~ExecAborts(w)
          THEN /\ redis' = ExecWrites(w)
               /\ vdirty' = [x \in Writers |-> IF x = w THEN vdirty[w] ELSE Touched[x]]
          ELSE UNCHANGED <<redis, vdirty>>
    /\ vresult' = [vresult EXCEPT ![w] = "ioerror"]
    /\ vpc' = [vpc EXCEPT ![w] = "done"]
    /\ UNCHANGED <<db, vreq, maxOk, lockVars, handlerVars>>

\* the expiration of line 139 or 140 elapses; whether an expired key fails
\* an open WATCH depends on the redis version
VerExpire(k) ==
    /\ RedisHas(redis, k)
    /\ redis[k].ttl > 0
    /\ redis' = RedisDel(redis, k)
    /\ \E aborts \in BOOLEAN : vdirty' = IF aborts THEN Touched ELSE vdirty
    /\ UNCHANGED <<db, vpc, vreq, vresult, maxOk, lockVars, handlerVars>>

\* a plain WritedownSingle(key, d, nil) by another caller
VerPlainWrite ==
    /\ \E d \in VData :
          redis' = WritedownSingle(redis, UserKey1, d, NilOpts, 0).redis
    /\ vdirty' = Touched
    /\ UNCHANGED <<db, vpc, vreq, vresult, maxOk, lockVars, handlerVars>>

\* service/lookup_single.go: InvalidateSingleCache(key) by another caller
VerInvalidate ==
    /\ RedisHas(redis, UserKey1)
    /\ redis' = RedisDel(redis, UserKey1)
    /\ vdirty' = Touched
    /\ UNCHANGED <<db, vpc, vreq, vresult, maxOk, lockVars, handlerVars>>

VerStep ==
    \E w \in Writers :
        \/ VerWatch(w)
        \/ VerGet(w)
        \/ VerExec(w)
        \/ VerExecFail(w)

VerOther ==
    \/ \E k \in {UserKey1, VKey} : VerExpire(k)
    \/ VerPlainWrite
    \/ VerInvalidate

\* versioned writers alone
VersionSpec == VerInit /\ [][VerStep]_vars

\* versioned writers, expiry, and callers that bypass the version path
VersionAllSpec == VerInit /\ [][VerStep \/ VerOther]_vars

-----------------------------------------------------------------------------
(* http_router/cache_set_router_group.go: HandleWritedownSingle, with       *)
(* service/lookup_single.go: LookupSingle and service/set_single.go:        *)
(* SetSingle beside it                                                      *)

EmptyKey == <<>>

\* the keys of the requests: none, and the key of user 1
WKeys == {EmptyKey, UserKey1}

NilID == 0

\* the expiration_seconds a request carries (0: the field is omitted)
ExpirationSeconds == {0, 60}

\* lines 110-115
parseExpiration(defaultSec, customSec) ==
    IF customSec <= 0 THEN defaultSec ELSE customSec

\* proto.Scan of the payload into a *T: UnmarshalBinary when *T implements
\* encoding.BinaryUnmarshaler (taken to decode the JSON written by
\* marshalForRedis), and "can't unmarshal" otherwise
Scan(p) ==
    IF scannable THEN UnmarshalJSON(p) ELSE [ok |-> FALSE, rec |-> NilData]

NilLookupOpts == [nil |-> TRUE]

LookupOptions == {NilLookupOpts} \cup [FallbackToDB : BOOLEAN, Refresh : BOOLEAN]

\* service/lookup_single.go lines 20-49
LookupSingle(rd, key, opts) ==
    LET read == opts = NilLookupOpts \/ ~opts.Refresh
        wantsDB == opts /= NilLookupOpts /\ opts.FallbackToDB
    IN IF read /\ RedisHas(rd, key) /\ Scan(rd[key].val).ok
       THEN [data |-> Scan(rd[key].val).rec, err |-> "nil"]
       ELSE IF read /\ RedisHas(rd, key)
       THEN [data |-> NilData, err |-> "redis lookup failed"]
       ELSE IF wantsDB
       THEN [data |-> NilData, err |-> "fallback requested"]
       ELSE [data |-> NilData, err |-> "redis.Nil"]

RowsOf(store) == {store[i] : i \in DOMAIN store}

WriteInit ==
    /\ redis = <<>>
    /\ \E S \in SUBSET {1}, a \in Ages : db = [i \in S |-> [id |-> i, age |-> a]]
    /\ committed = RowsOf(db)
    /\ last = NoLast
    /\ pend = {}
    /\ scannable \in BOOLEAN
    /\ hitRefresh = FALSE
    /\ LockOff
    /\ VersionOff

\* lines 135-184
HandleWritedownSingle(key, Data, ID, secs, ow, nx, xx, async) ==
    LET expiration == parseExpiration(DefaultExpiration, secs)
        via == IF Data /= NilData THEN "data" ELSE IF ID /= NilID THEN "id" ELSE "none"
        got == IF via = "id" THEN GetSingle(db, ID) ELSE [data |-> Data, err |-> "nil"]
        w == WritedownSingle(redis, key, got.data, Opts(expiration, ow, nx, xx), via)
    IN  IF key = EmptyKey
        THEN /\ last' = Last("HandleWritedownSingle", key, NilData, via, ~async,
                             "key cannot be empty")
             /\ UNCHANGED <<redis, pend>>
        ELSE IF via = "none"
        THEN /\ last' = Last("HandleWritedownSingle", key, NilData, via, ~async,
                             "either data or id must be provided")
             /\ UNCHANGED <<redis, pend>>
        ELSE IF got.err /= "nil"
        THEN /\ last' = Last("HandleWritedownSingle", key, NilData, via, ~async,
                             "failed to load data")
             /\ UNCHANGED <<redis, pend>>
        ELSE IF async
        THEN /\ Cardinality(pend) < MaxPending
             /\ pend' = pend \cup {[key |-> key, data |-> got.data,
                                    expiration |-> expiration, via |-> via]}
             /\ last' = Last("HandleWritedownSingle", key, got.data, via, FALSE,
                             "nil")
             /\ UNCHANGED redis
        ELSE /\ redis' = w.redis
             /\ last' = Last("HandleWritedownSingle", key, got.data, via, TRUE,
                             w.err)
             /\ UNCHANGED pend

HandleWrite ==
    /\ \E key \in WKeys, Data \in VData \cup {NilData}, ID \in {1, NilID},
          secs \in ExpirationSeconds, ow, nx, xx, async \in BOOLEAN :
          HandleWritedownSingle(key, Data, ID, secs, ow, nx, xx, async)
    /\ UNCHANGED <<db, scannable, hitRefresh, committed, lockVars, verVars>>

\* service/writedown_single.go lines 149-162: the goroutine of
\* WritedownSingleAsync runs; its error is printed and dropped
AsyncWrite ==
    /\ \E p \in pend :
          /\ redis' = WritedownSingle(redis, p.key, p.data,
                                      Opts(p.expiration, FALSE, FALSE, FALSE), p.via).redis
          /\ pend' = pend \ {p}
          /\ last' = Last("WritedownSingleAsync", p.key, p.data, p.via, FALSE, "nil")
    /\ UNCHANGED <<db, scannable, hitRefresh, committed, lockVars, verVars>>

\* a caller reads a key with LookupSingle
Lookup ==
    /\ \E key \in WKeys \ {EmptyKey}, opts \in LookupOptions :
          LET r == LookupSingle(redis, key, opts) IN
          last' = Last("LookupSingle", key, r.data, "none", TRUE, r.err)
    /\ UNCHANGED <<redis, db, pend, scannable, hitRefresh, committed, lockVars, verVars>>

\* service/set_single.go lines 20-58: the store transaction of SetSingle;
\* invalidateCacheForSingle (lines 203-206) does nothing
SetSingle ==
    /\ \E data \in VData, OnConflictUpdate, txFails \in BOOLEAN :
          LET duplicate == ~OnConflictUpdate /\ data.id \in DOMAIN db
              ok == ~txFails /\ ~duplicate
          IN /\ db' = IF ok
                      THEN [i \in DOMAIN db \cup {data.id} |->
                               IF i = data.id THEN data ELSE db[i]]
                      ELSE db
             /\ committed' = IF ok THEN committed \cup {data} ELSE committed
             /\ last' = Last("SetSingle", EmptyKey, data, "none", TRUE,
                             IF ok THEN "nil" ELSE "set single failed")
    /\ UNCHANGED <<redis, pend, scannable, hitRefresh, lockVars, verVars>>

WriteNext == HandleWrite \/ AsyncWrite \/ Lookup \/ SetSingle

WriteSpec == WriteInit /\ [][WriteNext]_vars

-----------------------------------------------------------------------------
(* http_router/cache_get_router_group.go: getByKeyCacheAside *)

Digits == {"0", "1", "2", "3", "4", "5", "6", "7", "8", "9"}

DigitValue(ch) ==
    CASE ch = "0" -> 0 [] ch = "1" -> 1 [] ch = "2" -> 2 [] ch = "3" -> 3
      [] ch = "4" -> 4 [] ch = "5" -> 5 [] ch = "6" -> 6 [] ch = "7" -> 7
      [] ch = "8" -> 8 [] ch = "9" -> 9

\* fmt.Sprintf("%d", n) of a one-digit n
DigitOf(n) == CHOOSE ch \in Digits : DigitValue(ch) = n

RECURSIVE SplitFrom(_, _, _)
\* strings.Split(key, ":"): `cur` is the segment being read, `i` the next index
SplitFrom(key, i, cur) ==
    IF i > Len(key) THEN <<cur>>
    ELSE IF key[i] = ":" THEN <<cur>> \o SplitFrom(key, i + 1, <<>>)
    ELSE SplitFrom(key, i + 1, Append(cur, key[i]))

Split(key) == SplitFrom(key, 1, <<>>)

RECURSIVE DecimalValue(_, _)
DecimalValue(seg, n) ==
    IF n = 0 THEN 0 ELSE 10 * DecimalValue(seg, n - 1) + DigitValue(seg[n])

\* strconv.Atoi-like parse whose error is dropped: 0 for a malformed text
ParseUint_ErrorDropped(seg) ==
    IF seg /= <<>> /\ \A i \in 1..Len(seg) : seg[i] \in Digits
    THEN [ok |-> TRUE, n |-> DecimalValue(seg, Len(seg))]
    ELSE [ok |-> TRUE, n |-> 0]

\* strconv.ParseUint(seg, 10, 32): digits only, no sign, below 2^32 (written
\* as value / 2^30 < 4; the segments of AKeys have at most two digits)
ParseUint(seg) ==
    IF seg /= <<>> /\ (\A i \in 1..Len(seg) : seg[i] \in Digits)
                   /\ DecimalValue(seg, Len(seg)) \div (2 ^ (UintBits - 2)) < 4
    THEN [ok |-> TRUE, n |-> DecimalValue(seg, Len(seg))]
    ELSE [ok |-> FALSE, n |-> 0]

\* lines 283-293
extractIDFromKey(key) ==
    LET parts == Split(key) IN
    IF Len(parts) < 2 THEN [id |-> 0, err |-> "invalid key format"]
    ELSE IF ~ParseUint(parts[Len(parts)]).ok
    THEN [id |-> 0, err |-> "failed to parse ID"]
    ELSE [id |-> ParseUint(parts[Len(parts)]).n, err |-> "nil"]

\* service/service_model.go lines 132-176: GetQueryWithoutTransaction with
\* queryFunc = Where("id = ?", id); the rows found
GetQueryWithoutTransaction(store, id) ==
    IF id \in DOMAIN store THEN <<store[id]>> ELSE <<>>

\* getCacheAsideTTL(): one hour unless CACHE_ASIDE_TTL is set
CacheAsideTTL == OneHour

\* lines 299-365: the cache after the call, the record, the hit flag and the
\* error returned, and the number of store queries issued; setFails: the SET
\* of line 358 fails
getByKeyCacheAside(rd, store, key, setFails) ==
    LET id == extractIDFromKey(key)
        rows == GetQueryWithoutTransaction(store, id.id)
    IN  IF RedisHas(rd, key)
        THEN IF ~UnmarshalJSON(rd[key].val).ok
             THEN [redis |-> rd, data |-> NilData, hit |-> FALSE,
                   err |-> "failed to unmarshal cached data", dbq |-> 0]
             ELSE [redis |-> IF hitRefresh
                             THEN RedisPut(rd, key, [rd[key] EXCEPT !.ttl = CacheAsideTTL])
                             ELSE rd,
                   data |-> UnmarshalJSON(rd[key].val).rec, hit |-> TRUE,
                   err |-> "nil", dbq |-> 0]
        ELSE IF id.err /= "nil"
        THEN [redis |-> rd, data |-> NilData, hit |-> FALSE, err |-> id.err, dbq |-> 0]
        ELSE IF Len(rows) = 0
        THEN [redis |-> rd, data |-> NilData, hit |-> FALSE,
              err |-> "record not found", dbq |-> 1]
        ELSE IF setFails
        THEN [redis |-> rd, data |-> rows[1], hit |-> FALSE,
              err |-> "failed to cache data (returned DB data)", dbq |-> 1]
        ELSE [redis |-> RedisSet(rd, key,
                                 Entry(MarshalJSON(rows[1]), CacheAsideTTL, "aside")).redis,
              data |-> rows[1], hit |-> FALSE, err |-> "nil", dbq |-> 1]

\* lines 422-451: the answer to GET /:key for what getByKeyCacheAside
\* returned; of the errors only "record not found for key" contains
\* "not found"
HandleGetByKey(r) ==
    IF r.err = "nil" THEN [status |-> 200, data |-> r.data]
    ELSE IF r.err = "record not found" THEN [status |-> 404, data |-> NilData]
    ELSE [status |-> 500, data |-> NilData]

\* the keys of the requests to GET /:key
AKeys ==
    { <<"u", ":", "1">>, <<"u", ":", "2">>, <<"u", ":", "0", "1">>,
      <<"a", ":", "b", ":", "2">>, <<"u", ":", "x">>, <<"u", ":", "-", "1">>,
      <<"u", ":">>, <<"u", "1">>, <<"7">>, <<>> }

AsideLast(op, key, r) ==
    [op |-> op, key |-> key, data |-> r.data, hit |-> r.hit, err |-> r.err,
     dbq |-> r.dbq]

Nothing == [data |-> NilData, hit |-> FALSE, err |-> "nil", dbq |-> 0]

AsideInit ==
    /\ redis = <<>>
    /\ \E S \in SUBSET Ids, a \in Ages : db = [i \in S |-> [id |-> i, age |-> a]]
    /\ committed = RowsOf(db)
    /\ last = AsideLast("none", <<>>, Nothing)
    /\ hitRefresh \in BOOLEAN
    /\ pend = {}
    /\ scannable = FALSE
    /\ LockOff
    /\ VersionOff

\* HandleGetByKey (lines 421-449) calls getByKeyCacheAside
GetByKey ==
    /\ \E key \in AKeys :
          LET r == getByKeyCacheAside(redis, db, key, FALSE) IN
          /\ redis' = r.redis
          /\ last' = AsideLast("getByKeyCacheAside", key, r)
    /\ UNCHANGED <<db, pend, scannable, hitRefresh, committed, lockVars, verVars>>

\* the TTL of an entry elapses
AsideExpire ==
    /\ \E k \in DOMAIN redis :
          /\ redis[k].ttl > 0
          /\ redis' = RedisDel(redis, k)
          /\ last' = AsideLast("expire", k, Nothing)
    /\ UNCHANGED <<db, pend, scannable, hitRefresh, committed, lockVars, verVars>>

\* another caller stores a record of the store under its key with
\* WritedownSingle and an expiration of its own
AsideWritedown ==
    /\ \E i \in DOMAIN db, secs \in ExpirationSeconds :
          /\ redis' = WritedownSingle(redis, <<"u", ":">> \o <<DigitOf(i)>>, db[i],
                                      Opts(secs, TRUE, FALSE, FALSE), "write").redis
          /\ last' = AsideLast("WritedownSingle", <<"u", ":">> \o <<DigitOf(i)>>, Nothing)
    /\ UNCHANGED <<db, pend, scannable, hitRefresh, committed, lockVars, verVars>>

AsideNext == GetByKey \/ AsideExpire \/ AsideWritedown

AsideSpec == AsideInit /\ [][AsideNext]_vars

\* HandleGetByKey while the cache refuses writes: the SET of line 358 fails
GetByKeySetFails ==
    /\ \E key \in AKeys :
          LET r == getByKeyCacheAside(redis, db, key, TRUE) IN
          /\ redis' = r.redis
          /\ last' = AsideLast("getByKeyCacheAside", key, r)
    /\ UNCHANGED <<db, pend, scannable, hitRefresh, committed, lockVars, verVars>>

AsideFaultNext == AsideNext \/ GetByKeySetFails

AsideFaultSpec == AsideInit /\ [][AsideFaultNext]_vars

-----------------------------------------------------------------------------
(* service/service_model.go: SetQuery and BatchUpsert.  The store is the   *)
(* function db from primary key to row; a transaction works on a copy and  *)
(* the copy replaces db only when the closure returns nil.                 *)

\* the records of batch requests: one per identity, and a second for user 1
BRecords == {r \in Records : r.age = 25 \/ r.id = 1}

BatchData == UNION {[1..n -> BRecords] : n \in 0..MaxBatch}

\* the batch_size values of requests; 0 asks for the default
BatchSizes == {0, 1, 2}

\* lines 318-321 (398-400): batchSize <= 0 becomes 100
EffectiveBatchSize(batchSize) ==
    IF batchSize <= 0 THEN DefaultBatchSize ELSE batchSize

Min(a, b) == IF a < b THEN a ELSE b

\* lines 323-328: the number of iterations of `for i := 0; i < len(data); i += batchSize`
NumChunks(data, batchSize) == (Len(data) + batchSize - 1) \div batchSize

\* data[i:end] of iteration k (k = 1 is the first)
Chunk(data, batchSize, k) ==
    SubSeq(data, (k - 1) * batchSize + 1, Min(k * batchSize, Len(data)))

RecordsOf(seq) == {seq[i] : i \in 1..Len(seq)}

RECURSIVE UpsertRows_AlwaysInsert(_, _, _)
\* an INSERT that takes every row as new and numbers it after the last row
UpsertRows_AlwaysInsert(store, batch, n) ==
    IF n > Len(batch) THEN store
    ELSE UpsertRows_AlwaysInsert(
             [i \in DOMAIN store \cup {Cardinality(DOMAIN store) + 1} |->
                 IF i \in DOMAIN store THEN store[i] ELSE batch[n]],
             batch, n + 1)

RECURSIVE UpsertRows(_, _, _)
\* INSERT ... ON CONFLICT (id) DO UPDATE of the rows of a batch, from row n on
UpsertRows(store, batch, n) ==
    IF n > Len(batch) THEN store
    ELSE UpsertRows([i \in DOMAIN store \cup {batch[n].id} |->
                        IF i = batch[n].id THEN batch[n] ELSE store[i]],
                    batch, n + 1)

\* a plain INSERT fails on a primary key that exists or is given twice
DuplicateKey(store, batch) ==
    \/ \E i \in 1..Len(batch) : batch[i].id \in DOMAIN store
    \/ \E i, j \in 1..Len(batch) : i /= j /\ batch[i].id = batch[j].id

\* tx.Clauses(OnConflict).Create(&batch) or tx.Create(&batch): the statement
\* of one chunk on the transaction's view of the store
CreateBatch(store, batch, onConflictUpdate, storeFails) ==
    IF storeFails \/ (~onConflictUpdate /\ DuplicateKey(store, batch))
    THEN [ok |-> FALSE, store |-> store]
    ELSE [ok |-> TRUE, store |-> UpsertRows(store, batch, 1)]

RECURSIVE RunChunks(_, _, _, _, _, _)
\* the loop of lines 323-339 from iteration k on; failAt is the iteration at
\* which the store refuses the statement (0: never).  The result names the
\* iteration that returned the error (0: none) and the transaction's view.
RunChunks(store, data, batchSize, onConflictUpdate, failAt, k) ==
    IF k > NumChunks(data, batchSize) THEN [failed |-> 0, store |-> store]
    ELSE LET c == CreateBatch(store, Chunk(data, batchSize, k), onConflictUpdate,
                              failAt = k)
         IN  IF ~c.ok THEN [failed |-> k, store |-> store]
             ELSE RunChunks(c.store, data, batchSize, onConflictUpdate, failAt, k + 1)

\* lines 313-340 (392-420): GetDB().Transaction(func(tx) { ...all chunks... }):
\* one transaction around the whole loop, rolled back when a chunk fails
Transaction(store, data, batchSize, onConflictUpdate, failAt) ==
    LET run == RunChunks(store, data, batchSize, onConflictUpdate, failAt, 1)
    IN  IF run.failed /= 0
        THEN [failed |-> run.failed, store |-> store]
        ELSE [failed |-> 0, store |-> run.store]

SetQueryOptions(batchSize, onConflictUpdate, invalidateCache) ==
    [BatchSize |-> batchSize, OnConflictUpdate |-> onConflictUpdate,
     InvalidateCache |-> invalidateCache]

RECURSIVE MatchFrom(_, _, _, _)
\* redis glob matching of pattern[i..] against key[j..], for patterns of
\* letters and '*'
MatchFrom(pattern, i, key, j) ==
    IF i > Len(pattern) THEN j > Len(key)
    ELSE IF pattern[i] = "*"
    THEN \/ MatchFrom(pattern, i + 1, key, j)
         \/ (j <= Len(key) /\ MatchFrom(pattern, i, key, j + 1))
    ELSE /\ j <= Len(key)
         /\ pattern[i] = key[j]
         /\ MatchFrom(pattern, i + 1, key, j + 1)

Match(pattern, key) == MatchFrom(pattern, 1, key, 1)

\* redis.Keys(ctx, pattern)
Keys(rd, pattern) == {k \in DOMAIN rd : Match(pattern, k)}

\* unnamed/part_001 lines 461-480: KEYS pattern, then DEL of the keys found
InvalidateCacheByPattern(rd, pattern) ==
    [k \in DOMAIN rd \ Keys(rd, pattern) |-> rd[k]]

\* service_model.go line 33: CacheKeyName = getTypeName(resource) + "_key"
CacheKeyName == <<"U", "s", "e", "r", "_", "k", "e", "y">>

\* lines 508-512: invalidateCacheForBatch deletes CacheKeyName:*
invalidateCacheForBatch(rd) ==
    InvalidateCacheByPattern(rd, CacheKeyName \o <<":", "*">>)

\* a SetQuery that returns the error of the cache invalidation
SetQuery_PropagatesCacheError(rd, store, data, opts, failAt, cacheFails) ==
    IF Len(data) = 0
    THEN [err |-> "nil", failed |-> 0, store |-> store, redis |-> rd, cache |-> "none"]
    ELSE LET tx == Transaction(store, data, EffectiveBatchSize(opts.BatchSize),
                               opts.OnConflictUpdate, failAt)
         IN  IF tx.failed /= 0
             THEN [err |-> "set query failed", failed |-> tx.failed,
                   store |-> tx.store, redis |-> rd, cache |-> "none"]
             ELSE IF opts.InvalidateCache /\ cacheFails
             THEN [err |-> "failed to invalidate cache", failed |-> 0,
                   store |-> tx.store, redis |-> rd, cache |-> "failed"]
             ELSE [err |-> "nil", failed |-> 0, store |-> tx.store,
                   redis |-> IF opts.InvalidateCache
                             THEN invalidateCacheForBatch(rd) ELSE rd,
                   cache |-> IF opts.InvalidateCache THEN "done" ELSE "none"]

\* lines 296-355; cacheFails: KEYS or DEL of the invalidation fails, which
\* line 350 prints.  `cache` tells what became of the cache operation
SetQuery(rd, store, data, opts, failAt, cacheFails) ==
    IF Len(data) = 0
    THEN [err |-> "nil", failed |-> 0, store |-> store, redis |-> rd, cache |-> "none"]
    ELSE LET tx == Transaction(store, data, EffectiveBatchSize(opts.BatchSize),
                               opts.OnConflictUpdate, failAt)
         IN  IF tx.failed /= 0
             THEN [err |-> "set query failed", failed |-> tx.failed,
                   store |-> tx.store, redis |-> rd, cache |-> "none"]
             ELSE [err |-> "nil", failed |-> 0, store |-> tx.store,
                   redis |-> IF opts.InvalidateCache /\ ~cacheFails
                             THEN invalidateCacheForBatch(rd) ELSE rd,
                   cache |-> IF ~opts.InvalidateCache THEN "none"
                             ELSE IF cacheFails THEN "failed" ELSE "done"]

\* lines 382-421, with conflictColumns = ["id"]; updateColumns (all columns or
\* the age column) gives the same row for a conflict on id
BatchUpsert(store, data, batchSize, failAt) ==
    IF Len(data) = 0 THEN [err |-> "nil", failed |-> 0, store |-> store]
    ELSE LET tx == Transaction(store, data, EffectiveBatchSize(batchSize), TRUE, failAt)
         IN  [err |-> IF tx.failed /= 0 THEN "batch upsert failed" ELSE "nil",
              failed |-> tx.failed, store |-> tx.store]

\* what a caller of a batch write saw: the error, the failing iteration, and
\* the records of the iterations before it
BatchLast(op, data, batchSize, r) ==
    [op |-> op, err |-> r.err, failed |-> r.failed,
     before |-> IF r.failed = 0 THEN {}
                ELSE RecordsOf(SubSeq(data, 1, Min((r.failed - 1) * batchSize, Len(data))))]

BatchInit ==
    /\ \E cached \in {{}, {CacheKeyName \o <<":", "1">>, UserKey1}} :
          redis = [k \in cached |->
                      Entry(MarshalJSON([id |-> 1, age |-> 25]), DefaultExpiration, "init")]
    /\ \E S \in SUBSET Ids : db = [i \in S |-> [id |-> i, age |-> 25]]
    /\ committed = {}
    /\ last = [op |-> "none", err |-> "nil", failed |-> 0, before |-> {}]
    /\ pend = {}
    /\ scannable = FALSE
    /\ hitRefresh = FALSE
    /\ LockOff
    /\ VersionOff

SetQueryCall ==
    /\ \E data \in BatchData, batchSize \in BatchSizes,
          onConflictUpdate, invalidateCache, cacheFails \in BOOLEAN, failAt \in 0..MaxBatch :
          LET r == SetQuery(redis, db, data,
                            SetQueryOptions(batchSize, onConflictUpdate, invalidateCache),
                            failAt, cacheFails)
          IN  /\ failAt <= NumChunks(data, EffectiveBatchSize(batchSize))
              /\ db' = r.store
              /\ redis' = r.redis
              /\ last' = BatchLast("SetQuery", data, EffectiveBatchSize(batchSize), r)
    /\ UNCHANGED <<pend, scannable, hitRefresh, committed, lockVars, verVars>>

BatchUpsertCall ==
    /\ \E data \in BatchData, batchSize \in BatchSizes, failAt \in 0..MaxBatch :
          LET r == BatchUpsert(db, data, batchSize, failAt)
          IN  /\ failAt <= NumChunks(data, EffectiveBatchSize(batchSize))
              /\ db' = r.store
              /\ last' = BatchLast("BatchUpsert", data, EffectiveBatchSize(batchSize), r)
    /\ UNCHANGED <<redis, pend, scannable, hitRefresh, committed, lockVars, verVars>>

\* another session deletes a row (BatchDelete, lines 424-445)
DeleteRow ==
    /\ \E i \in DOMAIN db :
          /\ db' = [j \in DOMAIN db \ {i} |-> db[j]]
          /\ last' = [op |-> "BatchDelete", err |-> "nil", failed |-> 0, before |-> {}]
    /\ UNCHANGED <<redis, pend, scannable, hitRefresh, committed, lockVars, verVars>>

BatchNext == SetQueryCall \/ BatchUpsertCall \/ DeleteRow

BatchSpec == BatchInit /\ [][BatchNext]_vars

-----------------------------------------------------------------------------
(* example/dataConsistency_db_cache_example: syncCacheToDatabase and        *)
(* startPeriodicSync, with LookupQueryByPattern and LookupQuery of          *)
(* unnamed/part_001                                                         *)

UserPrefix == <<"u", "s", "e", "r", ":">>

\* fmt.Sprintf("user:%d", user.ID)
UserKeyOf(id) == UserPrefix \o <<DigitOf(id)>>

UserPattern == UserPrefix \o <<"*">>

\* part_001 lines 213-272 with opts.FallbackToDB = false: MGET of the keys,
\* json.Unmarshal of every payload found; one payload that does not decode
\* fails the whole call
LookupQuery(rd, keys) ==
    IF \E k \in keys \cap DOMAIN rd : ~UnmarshalJSON(rd[k].val).ok
    THEN [err |-> "failed to unmarshal cache data", result |-> <<>>]
    ELSE [err |-> "nil",
          result |-> [k \in keys \cap DOMAIN rd |-> UnmarshalJSON(rd[k].val).rec]]

\* part_001 lines 275-294
LookupQueryByPattern(rd, pattern) ==
    LET keys == Keys(rd, pattern)
    IN  IF keys = {} THEN [err |-> "nil", result |-> <<>>]
        ELSE LookupQuery(rd, keys)

\* the orders in which `for _, u := range userMap` can visit the keys of S
Orders(S) ==
    {o \in [1..Cardinality(S) -> S] : \A i, j \in 1..Cardinality(S) : o[i] = o[j] => i = j}

RECURSIVE PipelineSet(_, _, _, _)
\* user.go lines 180-198: one SET user:<id> per user, with the TTL given
PipelineSet(rd, users, ttl, n) ==
    IF n > Len(users) THEN rd
    ELSE PipelineSet(RedisSet(rd, UserKeyOf(users[n].id),
                              Entry(MarshalJSON(users[n]), ttl, "write")).redis,
                     users, ttl, n + 1)

recacheUsers(rd, users, ttl, pipeFails) ==
    IF pipeFails THEN [redis |-> rd, n |-> 0, err |-> "pipeline exec failed"]
    ELSE [redis |-> PipelineSet(rd, users, ttl, 1), n |-> Len(users), err |-> "nil"]

CacheToDBRequest(pattern, batchSize, strategy, recache) ==
    [KeyPattern |-> pattern, BatchSize |-> batchSize, ConflictStrategy |-> strategy,
     RecacheAfterSync |-> recache]

NoSyncResult == [TotalScanned |-> 0, TotalSynced |-> 0, RecachedItems |-> 0, Mode |-> "none"]

\* lines 124-177 once the lookup, the users slice, SetQuery and recacheUsers
\* have been evaluated
SyncOutcome(rd, store, req, found, users, set, re) ==
    IF found.err /= "nil"
    THEN [err |-> "lookup failed", result |-> NoSyncResult, store |-> store, redis |-> rd]
    ELSE IF Len(users) = 0
    THEN [err |-> "nil", result |-> [NoSyncResult EXCEPT !.Mode = "no_data"],
          store |-> store, redis |-> rd]
    ELSE IF set.err /= "nil"
    THEN [err |-> "db write failed", result |-> NoSyncResult, store |-> store,
          redis |-> rd]
    ELSE [err |-> "nil",
          result |-> [TotalScanned |-> Cardinality(DOMAIN found.result),
                      TotalSynced |-> Len(users),
                      RecachedItems |-> IF req.RecacheAfterSync THEN re.n ELSE 0,
                      Mode |-> "cache_aside"],
          store |-> set.store,
          redis |-> IF req.RecacheAfterSync THEN re.redis ELSE set.redis]

\* lines 131-152: the users slice in map order, SetQuery, recacheUsers
SyncUsers(rd, store, req, found, users, failAt, pipeFails) ==
    SyncOutcome(rd, store, req, found, users,
                SetQuery(rd, store, users,
                         SetQueryOptions(IF req.BatchSize <= 0 THEN SyncBatchSize
                                         ELSE req.BatchSize,
                                         req.ConflictStrategy /= "skip", FALSE),
                         failAt, FALSE),
                recacheUsers(rd, users, CacheAsideTTL, pipeFails))

\* lines 124-129 and the loop of lines 131-136
SyncFound(rd, store, req, found, order, failAt, pipeFails) ==
    SyncUsers(rd, store, req, found,
              IF found.err /= "nil" THEN <<>>
              ELSE [i \in 1..Len(order) |-> found.result[order[i]]],
              failAt, pipeFails)

\* user.go lines 114-177.  order is the iteration order of the map, failAt the
\* chunk at which the store refuses a statement (0: never), pipeFails whether
\* the recache pipeline fails.
syncCacheToDatabase(rd, store, req, order, failAt, pipeFails) ==
    SyncFound(rd, store, req, LookupQueryByPattern(rd, req.KeyPattern), order,
              failAt, pipeFails)

ConflictStrategies == {"upsert", "skip"}

\* what the caller of a reconciliation run saw; runs counts the successful
\* upsert runs that followed one another with no other operation between
SyncLast(op, strategy, failAt, r, runs) ==
    [op |-> op, strategy |-> strategy, storeFailed |-> failAt /= 0, err |-> r.err,
     scanned |-> r.result.TotalScanned, synced |-> r.result.TotalSynced,
     recached |-> r.result.RecachedItems, mode |-> r.result.Mode, runs |-> runs]

NoSyncLast ==
    SyncLast("none", "upsert", 0, [err |-> "nil", result |-> NoSyncResult], 0)

SyncInit ==
    /\ redis = <<>>
    /\ \E S \in SUBSET Ids : db = [i \in S |-> [id |-> i, age |-> 25]]
    /\ committed = {}
    /\ last = NoSyncLast
    /\ pend = {}
    /\ scannable = FALSE
    /\ hitRefresh = FALSE
    /\ LockOff
    /\ VersionOff

\* the successful upsert runs in a row, this one included (2 stands for more)
RunsAfter(strategy, r) ==
    IF strategy = "upsert" /\ r.err = "nil"
    THEN IF last.op \in {"syncCacheToDatabase", "startPeriodicSync"} /\ last.runs >= 1
         THEN 2 ELSE 1
    ELSE 0

\* one call of syncCacheToDatabase with request req
RunSync(op, req) ==
    \E order \in Orders(DOMAIN LookupQueryByPattern(redis, req.KeyPattern).result) :
        \E failAt \in {0, 1}, pipeFails \in BOOLEAN :
            /\ failAt <= Len(order)
            /\ pipeFails => req.RecacheAfterSync
            /\ \E r \in {syncCacheToDatabase(redis, db, req, order, failAt, pipeFails)} :
                  /\ pipeFails => (req.RecacheAfterSync /\ r.err = "nil" /\ Len(order) > 0)
                  /\ db' = r.store
                  /\ redis' = r.redis
                  /\ last' = SyncLast(op, req.ConflictStrategy, failAt, r,
                                      RunsAfter(req.ConflictStrategy, r))

\* user.go lines 92-108: POST /sync/cache-to-db
handleCacheToDBSync ==
    /\ \E batchSize \in {0, 1}, strategy \in ConflictStrategies, recache \in BOOLEAN :
          RunSync("syncCacheToDatabase",
                  CacheToDBRequest(UserPattern, batchSize, strategy, recache))
    /\ UNCHANGED <<pend, scannable, hitRefresh, committed, lockVars, verVars>>

\* the request of lines 235-239 with recache_after_sync set
PeriodicRequest_Recache == CacheToDBRequest(UserPattern, 0, "upsert", TRUE)

\* lines 235-239: the request of every tick
PeriodicRequest == CacheToDBRequest(UserPattern, 0, "upsert", FALSE)

\* user.go lines 226-251: one tick of the 10 s ticker
startPeriodicSync ==
    /\ RunSync("startPeriodicSync", PeriodicRequest)
    /\ UNCHANGED <<pend, scannable, hitRefresh, committed, lockVars, verVars>>

OtherLast(op) == [NoSyncLast EXCEPT !.op = op]

\* a caller caches a record under a user key with WritedownSingle
SyncWritedown ==
    /\ \E i \in {1, 2}, data \in BRecords, secs \in ExpirationSeconds :
          redis' = WritedownSingle(redis, UserKeyOf(i), data,
                                   Opts(parseExpiration(DefaultExpiration, secs),
                                        TRUE, FALSE, FALSE), "write").redis
    /\ last' = OtherLast("WritedownSingle")
    /\ UNCHANGED <<db, pend, scannable, hitRefresh, committed, lockVars, verVars>>

\* a WritedownSingleWithVersion on user:1 that succeeded: the record and its
\* marker user:1:version
SyncVersionedWrite ==
    /\ \E data \in VData :
          redis' = RedisPut(RedisPut(redis, UserKey1,
                                     Entry(MarshalJSON(data), DefaultExpiration, "write")),
                            VKey, Entry(FormatInt(1), DefaultExpiration, "write"))
    /\ last' = OtherLast("WritedownSingleWithVersion")
    /\ UNCHANGED <<db, pend, scannable, hitRefresh, committed, lockVars, verVars>>

\* the TTL of an entry elapses
SyncExpire ==
    /\ \E k \in DOMAIN redis :
          /\ redis[k].ttl > 0
          /\ redis' = RedisDel(redis, k)
    /\ last' = OtherLast("expire")
    /\ UNCHANGED <<db, pend, scannable, hitRefresh, committed, lockVars, verVars>>

SyncNext ==
    \/ handleCacheToDBSync
    \/ startPeriodicSync
    \/ SyncWritedown
    \/ SyncVersionedWrite
    \/ SyncExpire

SyncSpec == SyncInit /\ [][SyncNext]_vars

\* the rows of the store, some of them cached under user:<id> by an earlier
\* cache-aside read
RevertInit ==
    /\ \E S \in SUBSET Ids : db = [i \in S |-> [id |-> i, age |-> 25]]
    /\ \E cached \in SUBSET DOMAIN db :
          redis = [k \in {UserKeyOf(i) : i \in cached} |->
                      Entry(MarshalJSON(db[CHOOSE i \in cached : k = UserKeyOf(i)]),
                            CacheAsideTTL, "aside")]
    /\ committed = RowsOf(db)
    /\ last = NoSyncLast
    /\ pend = {}
    /\ scannable = FALSE
    /\ hitRefresh = FALSE
    /\ LockOff
    /\ VersionOff

\* store updates through SetSingle between reconciliation runs
RevertNext ==
    \/ SetSingle
    \/ handleCacheToDBSync
    \/ startPeriodicSync
    \/ SyncExpire

RevertSpec == RevertInit /\ [][RevertNext]_vars

-----------------------------------------------------------------------------
(* util/filter_translator: FilterParam, the translators of the relational   *)
(* registry (grom_filter.go) and of the cache registry (unnamed/part_006,   *)
(* lines 675-1070).  A value of type interface{} is [t |-> "nil"], a        *)
(* number, a string (a sequence of characters) or a []interface{}; an error *)
(* is the sequence of its message parts, the nil error the empty sequence.  *)

NilValue == [t |-> "nil"]

Num(n) == [t |-> "num", n |-> n]

Str(s) == [t |-> "str", s |-> s]

Arr(a) == [t |-> "arr", a |-> a]

\* the values a predicate carries in the model
ParamValues ==
    {NilValue, Num(1), Str(<<"a">>), Arr(<<>>), Arr(<<Num(1)>>),
     Arr(<<Num(1), Num(2)>>)}

\* SupportedOperator of the translators NewGormTranslatorRegistry registers
GormOperators ==
    {"eq", "ne", "gt", "gte", "lt", "lte", "like", "in", "between",
     "isnull", "isnotnull"}

\* SupportedOperator of the translators NewRedisTranslatorRegistry registers
RedisOperators ==
    {"=", "!=", ">", ">=", "<", "<=", "like", "in", "between",
     "isnull", "isnotnull"}

\* the operator strings of the model: both registries' and one of neither
Operators == GormOperators \cup RedisOperators \cup {"regex"}

FilterParam(field, operator, value) ==
    [Field |-> field, Operator |-> operator, Value |-> value]

FilterParams == [Field : {"", "f"}, Operator : Operators, Value : ParamValues]

NoError == <<>>

NoFilter == [nil |-> TRUE]

GenericFilter(kind, field, operator, value) ==
    [kind |-> kind, Field |-> field, Operator |-> operator, Value |-> value]

GenericInFilter(kind, field, operator, values) ==
    [kind |-> kind, Field |-> field, Operator |-> operator, Values |-> values]

GenericBetweenFilter(kind, field, operator, min, max) ==
    [kind |-> kind, Field |-> field, Operator |-> operator, Min |-> min, Max |-> max]

IsArray(v) == v.t = "arr"

IsString(v) == v.t = "str"

\* Validate of the relational translators
GormValidate(param) ==
    IF param.Field = "" THEN <<"field cannot be empty">>
    ELSE CASE param.Operator \in {"eq", "ne", "gt", "gte", "lt", "lte"} ->
                IF param.Value = NilValue THEN <<"value cannot be nil">> ELSE NoError
           [] param.Operator = "like" ->
                IF ~IsString(param.Value) THEN <<"value must be string">> ELSE NoError
           [] param.Operator = "in" ->
                IF ~IsArray(param.Value) THEN <<"value must be array">>
                ELSE IF Len(param.Value.a) = 0 THEN <<"value array cannot be empty">>
                ELSE NoError
           [] param.Operator = "between" ->
                IF ~IsArray(param.Value) THEN <<"value must be array">>
                ELSE IF Len(param.Value.a) /= 2
                     THEN <<"value array must contain exactly 2 elements">>
                ELSE NoError
           [] OTHER -> NoError

\* Translate of the relational translators: the filter of each operator
GormTranslator(param) ==
    CASE param.Operator = "eq" ->
            GenericFilter("GormEqualFilter", param.Field, "eq", param.Value)
      [] param.Operator = "ne" ->
            GenericFilter("GormNotEqualFilter", param.Field, "ne", param.Value)
      [] param.Operator = "gt" ->
            GenericFilter("GormGreaterThanFilter", param.Field, "gt", param.Value)
      [] param.Operator = "gte" ->
            GenericFilter("GormGreaterThanOrEqualFilter", param.Field, "gte", param.Value)
      [] param.Operator = "lt" ->
            GenericFilter("GormLessThanFilter", param.Field, "lt", param.Value)
      [] param.Operator = "lte" ->
            GenericFilter("GormLessThanOrEqualFilter", param.Field, "lte", param.Value)
      [] param.Operator = "like" ->
            GenericFilter("GormLikeFilter", param.Field, "like", param.Value)
      [] param.Operator = "in" ->
            GenericInFilter("GormInFilter", param.Field, "in", param.Value.a)
      [] param.Operator = "between" ->
            GenericBetweenFilter("GormBetweenFilter", param.Field, "between",
                                 param.Value.a[1], param.Value.a[2])
      [] param.Operator = "isnull" ->
            GenericFilter("GormIsNullFilter", param.Field, "isnull", NilValue)
      [] param.Operator = "isnotnull" ->
            GenericFilter("GormIsNotNullFilter", param.Field, "isnotnull", NilValue)

\* DefaultGormRegistry.Translate
GormTranslate(param) ==
    IF param.Operator \notin GormOperators
    THEN [filter |-> NoFilter, err |-> <<"unsupported operator", param.Operator>>]
    ELSE IF GormValidate(param) /= NoError
    THEN [filter |-> NoFilter, err |-> <<"validation failed">> \o GormValidate(param)]
    ELSE [filter |-> GormTranslator(param), err |-> NoError]

\* Validate of the cache translators
RedisValidate(param) ==
    CASE param.Operator \in {"=", "!=", ">", ">=", "<", "<="} ->
            IF param.Field = "" \/ param.Value = NilValue
            THEN <<"invalid params">> ELSE NoError
      [] param.Operator = "like" ->
            IF ~IsString(param.Value) THEN <<"value must be string">> ELSE NoError
      [] param.Operator = "in" ->
            IF ~IsArray(param.Value) THEN <<"value must be array">> ELSE NoError
      [] param.Operator = "between" ->
            IF ~IsArray(param.Value) \/ Len(param.Value.a) /= 2
            THEN <<"between needs 2 values">> ELSE NoError
      [] OTHER -> NoError

\* Translate of the cache translators: the filter of each operator
RedisTranslator(param) ==
    CASE param.Operator = "=" ->
            GenericFilter("RedisEqualFilter", param.Field, "=", param.Value)
      [] param.Operator = "!=" ->
            GenericFilter("RedisNotEqualFilter", param.Field, "!=", param.Value)
      [] param.Operator = ">" ->
            GenericFilter("RedisGreaterThanFilter", param.Field, ">", param.Value)
      [] param.Operator = ">=" ->
            GenericFilter("RedisGreaterThanOrEqualFilter", param.Field, ">=", param.Value)
      [] param.Operator = "<" ->
            GenericFilter("RedisLessThanFilter", param.Field, "<", param.Value)
      [] param.Operator = "<=" ->
            GenericFilter("RedisLessThanOrEqualFilter", param.Field, "<=", param.Value)
      [] param.Operator = "like" ->
            GenericFilter("RedisLikeFilter", param.Field, "like", param.Value)
      [] param.Operator = "in" ->
            GenericInFilter("RedisInFilter", param.Field, "in", param.Value.a)
      [] param.Operator = "between" ->
            GenericBetweenFilter("RedisBetweenFilter", param.Field, "between",
                                 param.Value.a[1], param.Value.a[2])
      [] param.Operator = "isnull" ->
            GenericFilter("RedisIsNullFilter", param.Field, "isnull", NilValue)
      [] param.Operator = "isnotnull" ->
            GenericFilter("RedisIsNotNullFilter", param.Field, "isnotnull", NilValue)

\* DefaultRedisRegistry.Translate
RedisTranslate(param) ==
    IF param.Operator \notin RedisOperators
    THEN [filter |-> NoFilter, err |-> <<"unsupported operator", param.Operator>>]
    ELSE IF RedisValidate(param) /= NoError
    THEN [filter |-> NoFilter, err |-> RedisValidate(param)]
    ELSE [filter |-> RedisTranslator(param), err |-> NoError]

\* the predicates of the lists given to TranslateBatch in the model
BatchParams ==
    {p \in FilterParams : p.Field = "f" /\ p.Value \in {Num(1), Arr(<<Num(1), Num(2)>>)}}

ParamLists == UNION {[1..n -> BatchParams] : n \in 0..MaxFilters}

\* the loop of GormTranslatorRegistry.TranslateBatch from predicate i on;
\* calls counts the predicates given to Translate
RECURSIVE GormTranslateBatchFrom(_, _, _)
GormTranslateBatchFrom(params, i, filters) ==
    IF i > Len(params)
    THEN [filters |-> filters, err |-> NoError, calls |-> Len(params)]
    ELSE LET r == GormTranslate(params[i])
         IN  IF r.err /= NoError
             THEN [filters |-> <<>>, err |-> r.err, calls |-> i]
             ELSE GormTranslateBatchFrom(params, i + 1, Append(filters, r.filter))

\* a TranslateBatch that walks the predicates from the last to the first
GormTranslateBatch_Reversed(params) ==
    GormTranslateBatchFrom([i \in 1..Len(params) |-> params[Len(params) + 1 - i]], 1, <<>>)

\* DefaultGormRegistry.TranslateBatch
GormTranslateBatch(params) == GormTranslateBatchFrom(params, 1, <<>>)

\* the loop of RedisTranslatorRegistry.TranslateBatch from predicate i on
RECURSIVE RedisTranslateBatchFrom(_, _, _)
RedisTranslateBatchFrom(params, i, filters) ==
    IF i > Len(params)
    THEN [filters |-> filters, err |-> NoError, calls |-> Len(params)]
    ELSE LET r == RedisTranslate(params[i])
         IN  IF r.err /= NoError
             THEN [filters |-> <<>>, err |-> r.err, calls |-> i]
             ELSE RedisTranslateBatchFrom(params, i + 1, Append(filters, r.filter))

\* DefaultRedisRegistry.TranslateBatch
RedisTranslateBatch(params) == RedisTranslateBatchFrom(params, 1, <<>>)

\* what a caller of a registry saw
TranslateLast(op, params, r) ==
    [op |-> op, params |-> params, filters |-> r.filters, err |-> r.err,
     calls |-> r.calls]

\* the registries are built once and never change: a behaviour is one call
TranslateInit ==
    /\ redis = <<>>
    /\ db = <<>>
    /\ committed = {}
    /\ last = [op |-> "none"]
    /\ pend = {}
    /\ scannable = FALSE
    /\ hitRefresh = FALSE
    /\ LockOff
    /\ VersionOff

GormTranslateCall ==
    /\ last.op = "none"
    /\ \E param \in FilterParams :
          LET r == GormTranslate(param)
          IN  last' = [op |-> "GormTranslate", param |-> param,
                       filter |-> r.filter, err |-> r.err]
    /\ UNCHANGED <<redis, db, pend, scannable, hitRefresh, committed, lockVars, verVars>>

RedisTranslateCall ==
    /\ last.op = "none"
    /\ \E param \in FilterParams :
          LET r == RedisTranslate(param)
          IN  last' = [op |-> "RedisTranslate", param |-> param,
                       filter |-> r.filter, err |-> r.err]
    /\ UNCHANGED <<redis, db, pend, scannable, hitRefresh, committed, lockVars, verVars>>

GormTranslateBatchCall ==
    /\ last.op = "none"
    /\ \E params \in ParamLists :
          last' = TranslateLast("GormTranslateBatch", params, GormTranslateBatch(params))
    /\ UNCHANGED <<redis, db, pend, scannable, hitRefresh, committed, lockVars, verVars>>

RedisTranslateBatchCall ==
    /\ last.op = "none"
    /\ \E params \in ParamLists :
          last' = TranslateLast("RedisTranslateBatch", params, RedisTranslateBatch(params))
    /\ UNCHANGED <<redis, db, pend, scannable, hitRefresh, committed, lockVars, verVars>>

TranslateNext ==
    \/ GormTranslateCall
    \/ RedisTranslateCall
    \/ GormTranslateBatchCall
    \/ RedisTranslateBatchCall

TranslateSpec == TranslateInit /\ [][TranslateNext]_vars

-----------------------------------------------------------------------------
(* util/filter_translator: ApplyRedisFilters over the JSON entries of the   *)
(* cache (unnamed/part_006, lines 699-865 and 1058-1068) and the WHERE      *)
(* clauses of ApplyGormFilters (grom_filter.go, lines 19-116 and 519-524)   *)
(* as the MySQL store of the repository evaluates them.  The filtered table *)
(* has a nullable integer column age and a nullable text column name.       *)

Obj(members) == [t |-> "obj", m |-> members]

FFields == {"age", "name"}

\* the age and name of a row in the model
FRowShapes ==
    {[age |-> NilValue, name |-> NilValue],
     [age |-> Num(1), name |-> Str(<<"a">>)],
     [age |-> Num(2), name |-> Str(<<"A">>)]}

\* how json.Marshal writes a row: every member, the null members left out
\* (omitempty), or the row inside a "data" member
Encodings == {"plain", "omitempty", "wrapped"}

EncodeRow(row, encoding) ==
    LET members == <<<<"id", Num(row.id)>>, <<"age", row.age>>, <<"name", row.name>>>>
    IN  [enc |-> "json",
         obj |-> CASE encoding = "plain" -> members
                   [] encoding = "omitempty" ->
                        SelectSeq(members, LAMBDA m : m[2] /= NilValue)
                   [] encoding = "wrapped" -> <<<<"data", Obj(members)>>>>]

\* json.Unmarshal into a map[string]interface{}
DecodeMap(p) ==
    IF p.enc = "json" THEN [ok |-> TRUE, m |-> p.obj] ELSE [ok |-> FALSE, m |-> <<>>]

HasMember(m, name) == \E i \in 1..Len(m) : m[i][1] = name

Member(m, name) == m[CHOOSE i \in 1..Len(m) : m[i][1] = name][2]

\* lines 729-735: the top-level member, else the member of the nested data map
FieldOf(data, field) ==
    IF HasMember(data, field)
    THEN [exists |-> TRUE, val |-> Member(data, field)]
    ELSE IF /\ HasMember(data, "data")
            /\ Member(data, "data").t = "obj"
            /\ HasMember(Member(data, "data").m, field)
    THEN [exists |-> TRUE, val |-> Member(Member(data, "data").m, field)]
    ELSE [exists |-> FALSE, val |-> NilValue]

\* fmt.Sprintf("%v", v) of nil, of a number below ten and of a string
Sprint(v) ==
    CASE v.t = "nil" -> <<"<", "n", "i", "l", ">">>
      [] v.t = "num" -> <<DigitOf(v.n)>>
      [] v.t = "str" -> v.s

AllDigits(s) == s /= <<>> /\ \A i \in 1..Len(s) : s[i] \in Digits

\* toFloat64: numbers, and strings strconv.ParseFloat accepts (in the model
\* the strings of digits); n is 0 with an error
toFloat64(v) ==
    CASE v.t = "num" -> [ok |-> TRUE, n |-> v.n]
      [] v.t = "str" ->
            IF AllDigits(v.s)
            THEN [ok |-> TRUE, n |-> DecimalValue(v.s, Len(v.s))]
            ELSE [ok |-> FALSE, n |-> 0]
      [] OTHER -> [ok |-> FALSE, n |-> 0]

\* strings.ToLower over the letters of the model
ToLower(s) == [i \in 1..Len(s) |-> IF s[i] = "A" THEN "a" ELSE s[i]]

\* strings.Contains
Contains(s, sub) ==
    \E i \in 0..(Len(s) - Len(sub)) : SubSeq(s, i + 1, i + Len(sub)) = sub

\* a between that leaves the two bounds out
RedisBetween_Open(f, val) ==
    /\ toFloat64(val).ok
    /\ toFloat64(val).n > toFloat64(f.Min).n
    /\ toFloat64(val).n < toFloat64(f.Max).n

\* the function of RedisBetweenFilter.ApplyRedis (lines 825-831): the errors
\* of toFloat64(f.Min) and toFloat64(f.Max) are dropped
RedisBetween(f, val) ==
    /\ toFloat64(val).ok
    /\ toFloat64(val).n >= toFloat64(f.Min).n
    /\ toFloat64(val).n <= toFloat64(f.Max).n

\* the RedisFilterFunc each filter hands to applyRedisBatchFilter
RedisFilterFunc(f, val) ==
    CASE f.kind = "RedisEqualFilter" -> Sprint(val) = Sprint(f.Value)
      [] f.kind = "RedisNotEqualFilter" -> Sprint(val) /= Sprint(f.Value)
      [] f.kind = "RedisGreaterThanFilter" ->
            toFloat64(val).ok /\ toFloat64(val).n > toFloat64(f.Value).n
      [] f.kind = "RedisGreaterThanOrEqualFilter" ->
            toFloat64(val).ok /\ toFloat64(val).n >= toFloat64(f.Value).n
      [] f.kind = "RedisLessThanFilter" ->
            toFloat64(val).ok /\ toFloat64(val).n < toFloat64(f.Value).n
      [] f.kind = "RedisLessThanOrEqualFilter" ->
            toFloat64(val).ok /\ toFloat64(val).n <= toFloat64(f.Value).n
      [] f.kind = "RedisLikeFilter" ->
            Contains(ToLower(Sprint(val)), ToLower(f.Value.s))
      [] f.kind = "RedisInFilter" ->
            \E i \in 1..Len(f.Values) : Sprint(f.Values[i]) = Sprint(val)
      [] f.kind = "RedisBetweenFilter" -> RedisBetween(f, val)
      [] f.kind = "RedisIsNullFilter" -> val = NilValue
      [] f.kind = "RedisIsNotNullFilter" -> val /= NilValue

\* the body of the loop of applyRedisBatchFilter: whether key k is appended
Keeps(rd, k, f) ==
    /\ RedisHas(rd, k)
    /\ DecodeMap(rd[k].val).ok
    /\ FieldOf(DecodeMap(rd[k].val).m, f.Field).exists
    /\ RedisFilterFunc(f, FieldOf(DecodeMap(rd[k].val).m, f.Field).val)

\* ApplyRedis of filter f: applyRedisBatchFilter with its field and function
applyRedisBatchFilter(rd, keys, f, mgetFails) ==
    IF Len(keys) = 0 THEN [keys |-> <<>>, err |-> NoError]
    ELSE IF mgetFails THEN [keys |-> <<>>, err |-> <<"redis MGET failed">>]
    ELSE [keys |-> SelectSeq(keys, LAMBDA k : Keeps(rd, k, f)), err |-> NoError]

\* the loop of ApplyRedisFilters from filter i on; the MGET of filter failAt
\* fails (0: none does)
RECURSIVE ApplyRedisFiltersFrom(_, _, _, _, _)
ApplyRedisFiltersFrom(rd, keys, filters, i, failAt) ==
    IF i > Len(filters) THEN [keys |-> keys, err |-> NoError]
    ELSE LET r == applyRedisBatchFilter(rd, keys, filters[i], failAt = i)
         IN  IF r.err /= NoError THEN [keys |-> <<>>, err |-> r.err]
             ELSE ApplyRedisFiltersFrom(rd, r.keys, filters, i + 1, failAt)

\* an ApplyRedisFilters that gives every filter the initial keys and returns
\* the keys of the last one
ApplyRedisFilters_EachOnInitialKeys(rd, initialKeys, filters, failAt) ==
    IF Len(filters) = 0 THEN [keys |-> initialKeys, err |-> NoError]
    ELSE applyRedisBatchFilter(rd, initialKeys, filters[Len(filters)], failAt /= 0)

ApplyRedisFilters(rd, initialKeys, filters, failAt) ==
    ApplyRedisFiltersFrom(rd, initialKeys, filters, 1, failAt)

\* MySQL: the number a value is compared as (a text by its numeric prefix; the
\* texts of the model are all digits or have none)
SQLNumber(v) ==
    IF v.t = "num" THEN v.n
    ELSE IF AllDigits(v.s) THEN DecimalValue(v.s, Len(v.s)) ELSE 0

\* MySQL: a value as text
SQLText(v) == IF v.t = "num" THEN <<DigitOf(v.n)>> ELSE v.s

\* the weight of a character under the default collation of utf8mb4, which
\* does not tell letter case
Weight(ch) ==
    IF ch \in Digits THEN DigitValue(ch)
    ELSE CASE ch \in {"a", "A"} -> 10
           [] ch \in {"b", "B"} -> 11

\* comparison of two texts under the collation: -1, 0 or 1
RECURSIVE Collate(_, _, _)
Collate(s, t, i) ==
    IF i > Len(s) /\ i > Len(t) THEN 0
    ELSE IF i > Len(s) THEN -1
    ELSE IF i > Len(t) THEN 1
    ELSE IF Weight(s[i]) < Weight(t[i]) THEN -1
    ELSE IF Weight(s[i]) > Weight(t[i]) THEN 1
    ELSE Collate(s, t, i + 1)

\* the outcome of a comparison with NULL
SQLUnknown == 2

\* MySQL comparison of a column value and a bound value: -1, 0, 1, or unknown
\* when either is NULL; two texts by collation, otherwise as numbers
SQLCompare(a, b) ==
    IF a = NilValue \/ b = NilValue THEN SQLUnknown
    ELSE IF IsString(a) /\ IsString(b) THEN Collate(a.s, b.s, 1)
    ELSE IF SQLNumber(a) < SQLNumber(b) THEN -1
    ELSE IF SQLNumber(a) > SQLNumber(b) THEN 1
    ELSE 0

Column(row, field) ==
    CASE field = "age" -> row.age
      [] field = "name" -> row.name
      [] field = "id" -> Num(row.id)

\* whether the condition ApplyGorm of filter f adds is true of the row
SQLWhere(f, row) ==
    LET col == Column(row, f.Field) IN
    CASE f.kind = "GormEqualFilter" -> SQLCompare(col, f.Value) = 0
      [] f.kind = "GormNotEqualFilter" -> SQLCompare(col, f.Value) \in {-1, 1}
      [] f.kind = "GormGreaterThanFilter" -> SQLCompare(col, f.Value) = 1
      [] f.kind = "GormGreaterThanOrEqualFilter" -> SQLCompare(col, f.Value) \in {0, 1}
      [] f.kind = "GormLessThanFilter" -> SQLCompare(col, f.Value) = -1
      [] f.kind = "GormLessThanOrEqualFilter" -> SQLCompare(col, f.Value) \in {-1, 0}
      [] f.kind = "GormLikeFilter" ->
            col /= NilValue /\ Contains(ToLower(SQLText(col)), ToLower(f.Value.s))
      [] f.kind = "GormInFilter" ->
            \E i \in 1..Len(f.Values) : SQLCompare(col, f.Values[i]) = 0
      [] f.kind = "GormBetweenFilter" ->
            SQLCompare(col, f.Min) \in {0, 1} /\ SQLCompare(col, f.Max) \in {-1, 0}
      [] f.kind = "GormIsNullFilter" -> col = NilValue
      [] f.kind = "GormIsNotNullFilter" -> col /= NilValue

\* the identities of the rows a query with ApplyGormFilters(db, filters)
\* returns: the conditions are joined with AND
ApplyGormFilters(store, filters) ==
    {i \in DOMAIN store : \A k \in 1..Len(filters) : SQLWhere(filters[k], store[i])}

\* the predicates of the model that have the shape of their operator
ShapedParams(scalarOperators) ==
    {FilterParam(fld, op, v) :
        fld \in FFields, op \in scalarOperators, v \in {Num(1), Str(<<"a">>)}}
    \cup {FilterParam(fld, "like", Str(<<"a">>)) : fld \in FFields}
    \cup {FilterParam(fld, "in", Arr(<<Num(1), Num(2)>>)) : fld \in FFields}
    \cup {FilterParam(fld, "between", v) :
            fld \in FFields,
            v \in {Arr(<<Num(1), Num(2)>>), Arr(<<Num(1), Num(1)>>),
                   Arr(<<Num(2), Num(2)>>), Arr(<<Str(<<"a">>), Str(<<"a">>)>>)}}
    \cup {FilterParam(fld, op, NilValue) : fld \in FFields, op \in {"isnull", "isnotnull"}}

RedisParams == ShapedParams({"=", "!=", ">", ">=", "<", "<="})

GormParams == ShapedParams({"eq", "ne", "gt", "gte", "lt", "lte"})

ListsOf(S) == UNION {[1..n -> S] : n \in 0..MaxFilters}

\* the keys of the two rows
RowKeys == <<UserKeyOf(1), UserKeyOf(2)>>

\* user:3 holds a payload that is not a JSON object, user:4 does not exist
KeyLists == {<<>>, RowKeys, <<UserKeyOf(2), UserKeyOf(3), UserKeyOf(4), UserKeyOf(1)>>}

\* two rows, each cached under user:<id>, and the entry user:3
FilterInit ==
    /\ \E s1, s2 \in FRowShapes, encoding \in Encodings :
          /\ db = [i \in {1, 2} |->
                      [id |-> i, age |-> IF i = 1 THEN s1.age ELSE s2.age,
                       name |-> IF i = 1 THEN s1.name ELSE s2.name]]
          /\ redis = [k \in {UserKeyOf(i) : i \in {1, 2, 3}} |->
                         IF k = UserKeyOf(3)
                         THEN Entry(FormatInt(1), 0, "init")
                         ELSE LET i == IF k = UserKeyOf(1) THEN 1 ELSE 2
                                  s == IF i = 1 THEN s1 ELSE s2
                              IN  Entry(EncodeRow([id |-> i, age |-> s.age, name |-> s.name],
                                                  encoding),
                                        DefaultExpiration, "init")]
    /\ committed = {}
    /\ last = [op |-> "none"]
    /\ pend = {}
    /\ scannable = FALSE
    /\ hitRefresh = FALSE
    /\ LockOff
    /\ VersionOff

\* cache_get_router_group.go lines 158-168: the predicates are translated by
\* the cache registry and the filters applied to the keys
ApplyRedisFiltersCall ==
    /\ last.op = "none"
    /\ \E params \in ListsOf(RedisParams), keys \in KeyLists, failAt \in 0..MaxFilters :
          LET filters == RedisTranslateBatch(params).filters
              r == ApplyRedisFilters(redis, keys, filters, failAt)
          IN  /\ failAt <= Len(params)
              /\ last' = [op |-> "ApplyRedisFilters", params |-> params,
                          filters |-> filters, keys |-> keys,
                          result |-> r.keys, err |-> r.err]
    /\ UNCHANGED <<redis, db, pend, scannable, hitRefresh, committed, lockVars, verVars>>

\* cache_get_router_group.go lines 213-226: the predicates are translated by
\* the relational registry and the query is run with their conditions
ApplyGormFiltersCall ==
    /\ last.op = "none"
    /\ \E params \in ListsOf(GormParams) :
          LET filters == GormTranslateBatch(params).filters
          IN  last' = [op |-> "ApplyGormFilters", params |-> params,
                       filters |-> filters, ids |-> ApplyGormFilters(db, filters)]
    /\ UNCHANGED <<redis, db, pend, scannable, hitRefresh, committed, lockVars, verVars>>

FilterNext == ApplyRedisFiltersCall \/ ApplyGormFiltersCall

FilterSpec == FilterInit /\ [][FilterNext]_vars

-----------------------------------------------------------------------------
(* http_router/cache_get_router_group.go: executeLookup (lines 134-202) and *)
(* loadFromDBAndCache (lines 205-278), with LookupQuery of unnamed/part_001 *)
(* (lines 213-272).  `io` is the set of the kinds of command the call sent  *)
(* to the cache or to the store; `fault` names the one command that fails.  *)

MetaSuffix == <<":", "m", "e", "t", "a">>

\* strings.HasSuffix
HasSuffix(k, suffix) ==
    Len(k) >= Len(suffix) /\ SubSeq(k, Len(k) - Len(suffix) + 1, Len(k)) = suffix

Range(seq) == {seq[i] : i \in 1..Len(seq)}

\* the keys KEYS returned, as a slice (in one of the orders redis may give)
KeySlice(S) == CHOOSE o \in Orders(S) : TRUE

\* json.Unmarshal of a payload into a row; a member the payload lacks keeps
\* its zero value
DecodeRow(p) ==
    IF p.enc /= "json" THEN [ok |-> FALSE, row |-> NilData]
    ELSE [ok |-> TRUE,
          row |-> [id |-> IF HasMember(p.obj, "id") THEN Member(p.obj, "id").n ELSE 0,
                   age |-> IF HasMember(p.obj, "age") THEN Member(p.obj, "age") ELSE NilValue,
                   name |-> IF HasMember(p.obj, "name") THEN Member(p.obj, "name")
                            ELSE NilValue]]

\* what executeLookup returns, the cache it leaves, and as history the kinds
\* of command it sent, whether the keys were narrowed without error
\* (`narrowed`, with the keys that remained) and whether it called
\* loadFromDBAndCache
LookupOut(res, keys, err, rd, io, narrowed, remained, fallback) ==
    [res |-> res, keys |-> keys, err |-> err, redis |-> rd, io |-> io,
     narrowed |-> narrowed, remained |-> remained, fallback |-> fallback]

\* lines 233-275 of loadFromDBAndCache: one SET user:<id> per row found, sent
\* in one pipeline whose failure is ignored
PopulateCache(rd, store, ids, pipeFails) ==
    IF pipeFails THEN rd
    ELSE [k \in DOMAIN rd \cup {UserKeyOf(i) : i \in ids} |->
             IF \E i \in ids : k = UserKeyOf(i)
             THEN Entry(EncodeRow(store[CHOOSE i \in ids : k = UserKeyOf(i)], "plain"),
                        CacheAsideTTL, "write")
             ELSE rd[k]]

\* loadFromDBAndCache, called at line 184 with the keys narrowed to none
loadFromDBAndCache(rd, store, filters, fault, io) ==
    LET t == GormTranslateBatch(filters) IN
    IF Len(filters) > 0 /\ t.err /= NoError
    THEN LookupOut(<<>>, <<>>, <<"invalid gorm filters">> \o t.err, rd, io, TRUE, <<>>, TRUE)
    ELSE IF fault = "query"
    THEN LookupOut(<<>>, <<>>, <<"failed to query from database">>, rd,
                   io \cup {"query"}, TRUE, <<>>, TRUE)
    ELSE LET ids == ApplyGormFilters(store, t.filters) IN
         IF ids = {}
         THEN LookupOut(<<>>, <<>>, NoError, rd, io \cup {"query"}, TRUE, <<>>, TRUE)
         ELSE LookupOut([k \in {UserKeyOf(i) : i \in ids} |->
                            store[CHOOSE i \in ids : k = UserKeyOf(i)]],
                        KeySlice({UserKeyOf(i) : i \in ids}), NoError,
                        PopulateCache(rd, store, ids, fault = "pipeline"),
                        io \cup {"query", "pipeline"}, TRUE, <<>>, TRUE)

\* lines 188-201: LookupQuery of the keys that remained.  `gone` are the keys
\* that KEYS listed and that expired before this MGET; a key MGET does not
\* find is looked up in the store when FallbackToDB is set (lookupFromDB asks
\* for the rows whose id is IN the key texts, which no row of the model is)
LookupRemaining(rd, keys, fallbackToDB, fault, io, gone) ==
    LET now == [k \in DOMAIN rd \ gone |-> rd[k]] IN
    IF fault = "MGET" /\ "MGET" \notin io
    THEN LookupOut(<<>>, <<>>, <<"lookup query failed">>, now, io \cup {"MGET"},
                   TRUE, keys, FALSE)
    ELSE IF \E i \in 1..Len(keys) : RedisHas(now, keys[i]) /\ ~DecodeRow(now[keys[i]].val).ok
    THEN LookupOut(<<>>, <<>>, <<"lookup query failed">>, now, io \cup {"MGET"},
                   TRUE, keys, FALSE)
    ELSE LookupOut([k \in Range(keys) \cap DOMAIN now |-> DecodeRow(now[k].val).row],
                   keys, NoError, now,
                   IF fallbackToDB /\ \E i \in 1..Len(keys) : ~RedisHas(now, keys[i])
                   THEN io \cup {"MGET", "query"} ELSE io \cup {"MGET"},
                   TRUE, keys, FALSE)

\* lines 182-183: whether the store is asked once no key remains
NeedsFallback_FlagOnly(filters, fallbackToDB) == fallbackToDB

NeedsFallback(filters, fallbackToDB) == Len(filters) > 0 \/ fallbackToDB

\* lines 170-202, with the keys left by the filters
AfterFilters(rd, store, filtered, filters, fallbackToDB, fault, io, gone) ==
    LET allKeys == SelectSeq(filtered,
                             LAMBDA k : ~HasSuffix(k, VersionSuffix) /\ ~HasSuffix(k, MetaSuffix))
    IN  IF Len(allKeys) = 0
        THEN IF NeedsFallback(filters, fallbackToDB)
             THEN loadFromDBAndCache(rd, store, filters, fault, io)
             ELSE LookupOut(<<>>, <<>>, NoError, rd, io, TRUE, <<>>, FALSE)
        ELSE LookupRemaining(rd, allKeys, fallbackToDB, fault, io, gone)

\* lines 157-168, with the keys left by the custom filter
AfterCustom(rd, store, keys, filters, fallbackToDB, fault, io, gone) ==
    IF Len(filters) = 0
    THEN AfterFilters(rd, store, keys, filters, fallbackToDB, fault, io, gone)
    ELSE LET t == RedisTranslateBatch(filters) IN
         IF t.err /= NoError
         THEN LookupOut(<<>>, <<>>, <<"invalid filters">> \o t.err, rd, io,
                        FALSE, <<>>, FALSE)
         ELSE LET r == ApplyRedisFilters(rd, keys, t.filters,
                                         IF fault = "MGET" THEN 1 ELSE 0)
              IN  IF r.err /= NoError
                  THEN LookupOut(<<>>, <<>>, <<"filter application failed">> \o r.err,
                                 rd, io \cup {"MGET"}, FALSE, <<>>, FALSE)
                  ELSE AfterFilters(rd, store, r.keys, filters, fallbackToDB, fault,
                                    IF Len(keys) > 0 THEN io \cup {"MGET"} ELSE io,
                                    gone)

\* the custom filter of the model: it keeps the keys of user 1 and asks the
\* cache for them
customFilterFunc(keys) == SelectSeq(keys, LAMBDA k : k = UserKeyOf(1))

\* executeLookup; customSet: lrg.customFilterFunc is not nil
executeLookup(rd, store, keyPattern, filters, useCustomFilter, fallbackToDB, customSet, fault, gone) ==
    IF fault = "KEYS"
    THEN LookupOut(<<>>, <<>>, <<"failed to get keys">>, rd, {"KEYS"}, FALSE, <<>>, FALSE)
    ELSE IF useCustomFilter /\ customSet
    THEN IF fault = "custom"
         THEN LookupOut(<<>>, <<>>, <<"custom filter failed">>, rd, {"KEYS", "custom"},
                        FALSE, <<>>, FALSE)
         ELSE AfterCustom(rd, store, customFilterFunc(KeySlice(Keys(rd, keyPattern))),
                          filters, fallbackToDB, fault, {"KEYS", "custom"}, gone)
    ELSE AfterCustom(rd, store, KeySlice(Keys(rd, keyPattern)), filters, fallbackToDB,
                     fault, {"KEYS"}, gone)

\* the predicates of the lookups of the model: three that both registries
\* take, one that only the cache registry takes, one that only the relational
\* registry takes and one that neither takes
LookupParams ==
    {FilterParam("age", "between", Arr(<<Num(1), Num(1)>>)),
     FilterParam("age", "isnotnull", NilValue),
     FilterParam("name", "like", Str(<<"a">>)),
     FilterParam("age", "=", Num(1)),
     FilterParam("age", "eq", Num(1)),
     FilterParam("age", "between", Arr(<<Num(1)>>))}

Faults == {"none", "KEYS", "custom", "MGET", "query", "pipeline"}

\* two rows; each may be cached under user:<id>, and user:1 may have a
\* version marker
LookupInit ==
    /\ \E s1, s2 \in FRowShapes :
          db = [i \in {1, 2} |->
                   [id |-> i, age |-> IF i = 1 THEN s1.age ELSE s2.age,
                    name |-> IF i = 1 THEN s1.name ELSE s2.name]]
    /\ \E cached \in SUBSET {1, 2}, marker \in BOOLEAN :
          redis = [k \in {UserKeyOf(i) : i \in cached}
                         \cup (IF marker THEN {VersionKeyOf(UserKeyOf(1))} ELSE {}) |->
                      IF k = VersionKeyOf(UserKeyOf(1))
                      THEN Entry(FormatInt(1), DefaultExpiration, "init")
                      ELSE Entry(EncodeRow(db[CHOOSE i \in cached : k = UserKeyOf(i)],
                                           "plain"),
                                 DefaultExpiration, "init")]
    /\ committed = {}
    /\ last = [op |-> "none"]
    /\ pend = {}
    /\ scannable = FALSE
    /\ hitRefresh = FALSE
    /\ LockOff
    /\ VersionOff

ExecuteLookup ==
    /\ last.op = "none"
    /\ \E filters \in ListsOf(LookupParams),
          useCustomFilter, fallbackToDB, customSet \in BOOLEAN, fault \in Faults,
          gone \in SUBSET {UserKeyOf(1)} :
          \E r \in {executeLookup(redis, db, UserPattern, filters, useCustomFilter,
                                  fallbackToDB, customSet, fault, gone)} :
             /\ redis' = r.redis
             /\ last' = [op |-> "executeLookup", filters |-> filters,
                         fallbackToDB |-> fallbackToDB, fault |-> fault,
                         res |-> r.res, keys |-> r.keys, err |-> r.err, io |-> r.io,
                         narrowed |-> r.narrowed, remained |-> r.remained,
                         fallback |-> r.fallback, gone |-> gone, before |-> redis]
    /\ UNCHANGED <<db, pend, scannable, hitRefresh, committed, lockVars, verVars>>

\* lines 453-500: HandleCount runs executeLookup with fallbackToDB = false and
\* answers with the number of keys
HandleCount ==
    /\ last.op = "none"
    /\ \E filters \in ListsOf(LookupParams), useCustomFilter, customSet \in BOOLEAN,
          fault \in Faults :
          \E r \in {executeLookup(redis, db, UserPattern, filters, useCustomFilter,
                                  FALSE, customSet, fault, {})} :
             /\ redis' = r.redis
             /\ last' = [op |-> "HandleCount", filters |-> filters, fault |-> fault,
                         status |-> IF r.err = NoError THEN 200 ELSE 500,
                         count |-> Len(r.keys), io |-> r.io,
                         fallback |-> r.fallback, before |-> redis]
    /\ UNCHANGED <<db, pend, scannable, hitRefresh, committed, lockVars, verVars>>

LookupNext == ExecuteLookup \/ HandleCount

LookupSpec == LookupInit /\ [][LookupNext]_vars

-----------------------------------------------------------------------------
(* Concurrent cache writers on UserKey1: WritedownSingle in its two         *)
(* definitions (service/writedown_single.go lines 33-63 and lines 203-234), *)
(* WritedownSingleAsync (lines 149-162) and WritedownQuery                  *)
(* (unnamed/part_001 lines 20-84) with a one-record batch.  Each redis      *)
(* command is one step; `pend` holds the calls in flight.                   *)

\* the record writer w writes
DataOf(w) == [id |-> 1, age |-> IF w = 1 THEN 25 ELSE 40]

\* a call in flight: `checked` tells which definition of WritedownSingle runs
\* (with the Exists check of lines 215-219 or without), `async` that the call
\* is the goroutine of WritedownSingleAsync, `cancelled` that the context of
\* the caller has been cancelled
Call(w, op, at, opts, checked, async, cancelled) ==
    [w |-> w, op |-> op, at |-> at, opts |-> opts, checked |-> checked,
     async |-> async, cancelled |-> cancelled]

CallOf(w) == CHOOSE p \in pend : p.w = w

Busy(w) == \E p \in pend : p.w = w

\* the context the commands of a call run under is done: the goroutine of
\* WritedownSingleAsync derives its context from the caller's
Cancelled_Inherited(p) == p.cancelled

\* the context the commands of a call run under is done: the caller's for a
\* direct call, context.Background() for the goroutine (line 156)
Cancelled(p) == ~p.async /\ p.cancelled

\* lines 215-219 and part_001 lines 57-62: whether the Exists check precedes
\* the write
ChecksFirst(op, opts, checked) ==
    IF op = "WritedownQuery" THEN ~opts.Overwrite
    ELSE checked /\ ~opts.Overwrite /\ ~opts.NX

RaceInit ==
    /\ \E present \in BOOLEAN :
          redis = IF present
                  THEN (UserKey1 :> Entry(MarshalJSON([id |-> 1, age |-> 25]),
                                          DefaultExpiration, "init"))
                  ELSE <<>>
    /\ db = <<>>
    /\ pend = {}
    /\ result = [w \in Writers |-> "nil"]
    /\ last = [op |-> "none"]
    /\ pc = <<>>
    /\ loaded = <<>>
    /\ loads = 0
    /\ ttlElapsed = FALSE
    /\ scannable = FALSE
    /\ hitRefresh = FALSE
    /\ committed = {}
    /\ VersionOff

raceFrame == <<db, pc, loaded, loads, ttlElapsed, scannable, hitRefresh, committed,
               verVars>>

\* the call returns err to its caller (fails: its last command failed); the goroutine of WritedownSingleAsync
\* prints it (line 159) and has no caller to return to
Return(p, fails, err) ==
    /\ pend' = pend \ {p}
    /\ result' = IF p.async THEN result ELSE [result EXCEPT ![p.w] = err]
    /\ last' = [op |-> p.op, call |-> p, fails |-> fails, err |-> err]

\* a caller enters WritedownSingle or WritedownQuery
CallStart(w) ==
    /\ ~Busy(w)
    /\ \E op \in {"WritedownSingle", "WritedownQuery"}, ow, nx, xx, checked \in BOOLEAN :
          /\ op = "WritedownQuery" => (~nx /\ ~xx /\ ~checked)
          /\ LET opts == Opts(DefaultExpiration, ow, nx, xx) IN
             pend' = pend \cup
                 {Call(w, op,
                       IF ChecksFirst(op, opts, checked) THEN "exists"
                       ELSE IF op = "WritedownQuery" THEN "mset" ELSE "set",
                       opts, checked, FALSE, FALSE)}
    /\ result' = [result EXCEPT ![w] = "pending"]
    /\ last' = [op |-> "call", w |-> w]
    /\ UNCHANGED <<redis, raceFrame>>

\* lines 149-162: WritedownSingleAsync starts the goroutine and returns
WritedownSingleAsync(w) ==
    /\ ~Busy(w)
    /\ \E checked \in BOOLEAN :
          LET opts == Opts(DefaultExpiration, FALSE, FALSE, FALSE) IN
          pend' = pend \cup
              {Call(w, "WritedownSingle",
                    IF ChecksFirst("WritedownSingle", opts, checked) THEN "exists" ELSE "set",
                    opts, checked, TRUE, FALSE)}
    /\ result' = [result EXCEPT ![w] = "returned"]
    /\ last' = [op |-> "WritedownSingleAsync", w |-> w]
    /\ UNCHANGED <<redis, raceFrame>>

\* the context of the caller is cancelled
CancelCaller(w) ==
    /\ Busy(w)
    /\ ~CallOf(w).cancelled
    /\ pend' = (pend \ {CallOf(w)}) \cup {[CallOf(w) EXCEPT !.cancelled = TRUE]}
    /\ last' = [op |-> "cancel", w |-> w]
    /\ UNCHANGED <<redis, result, raceFrame>>

\* rdb.Exists(ctx, key).Val() > 0: Val() is 0 when the command failed
ExistsStep(w) ==
    /\ Busy(w)
    /\ CallOf(w).at = "exists"
    /\ \E fails \in BOOLEAN :
          LET p == CallOf(w)
              found == ~fails /\ ~Cancelled(p) /\ RedisHas(redis, UserKey1)
          IN  IF found
              THEN Return(p, fails, IF p.op = "WritedownQuery" THEN "nil"
                             ELSE "key already exists")
              ELSE /\ pend' = (pend \ {p}) \cup
                        {[p EXCEPT !.at = IF p.op = "WritedownQuery" THEN "mset"
                                          ELSE "set"]}
                   /\ last' = [op |-> "exists", w |-> w]
                   /\ UNCHANGED result
    /\ UNCHANGED <<redis, raceFrame>>

\* lines 50-62 (222-233): the SET, SET NX or SET XX of WritedownSingle
SetStep(w) ==
    /\ Busy(w)
    /\ CallOf(w).at = "set"
    /\ \E fails \in BOOLEAN :
          LET p == CallOf(w) IN
          IF fails \/ Cancelled(p)
          THEN /\ Return(p, fails, "failed to write cache")
               /\ UNCHANGED redis
          ELSE /\ redis' = WritedownSingle(redis, UserKey1, DataOf(w), p.opts, w).redis
               /\ Return(p, fails, "nil")
    /\ UNCHANGED raceFrame

\* part_001 lines 71-75: the MSET of the keys that passed the check
MSetStep(w) ==
    /\ Busy(w)
    /\ CallOf(w).at = "mset"
    /\ \E fails \in BOOLEAN :
          LET p == CallOf(w) IN
          IF fails \/ Cancelled(p)
          THEN /\ Return(p, fails, "failed to write batch to cache")
               /\ UNCHANGED redis
          ELSE /\ redis' = RedisPut(redis, UserKey1, Entry(MarshalJSON(DataOf(w)), 0, w))
               /\ pend' = (pend \ {p}) \cup {[p EXCEPT !.at = "expire"]}
               /\ last' = [op |-> "mset", w |-> w]
               /\ UNCHANGED result
    /\ UNCHANGED raceFrame

\* part_001 lines 77-79: EXPIRE of each key written, its error dropped
ExpireStep(w) ==
    /\ Busy(w)
    /\ CallOf(w).at = "expire"
    /\ \E fails \in BOOLEAN :
          LET p == CallOf(w) IN
          /\ redis' = IF ~fails /\ ~Cancelled(p) /\ RedisHas(redis, UserKey1)
                      THEN [redis EXCEPT ![UserKey1].ttl = p.opts.Expiration]
                      ELSE redis
          /\ Return(p, fails, "nil")
    /\ UNCHANGED raceFrame

\* the entry's TTL elapses
KeyExpire ==
    /\ RedisHas(redis, UserKey1)
    /\ redis[UserKey1].ttl > 0
    /\ redis' = RedisDel(redis, UserKey1)
    /\ last' = [op |-> "expired"]
    /\ UNCHANGED <<pend, result, raceFrame>>

RaceNext ==
    \/ \E w \in Writers :
          \/ CallStart(w)
          \/ WritedownSingleAsync(w)
          \/ CancelCaller(w)
          \/ ExistsStep(w)
          \/ SetStep(w)
          \/ MSetStep(w)
          \/ ExpireStep(w)
    \/ KeyExpire

RaceSpec == RaceInit /\ [][RaceNext]_vars

-----------------------------------------------------------------------------
(* SetQuery and SetSingle with what they were given kept in `last`: the     *)
(* store before the call, the options, whether the store refused a          *)
(* statement and whether the cache command failed                           *)

\* service/set_single.go lines 203-206: left to the application, returns nil
invalidateCacheForSingle(rd, data) == [redis |-> rd, err |-> "nil"]

\* service_model.go lines 296-355
SetQueryCommit ==
    /\ last.op \in {"none", "SetSingle"}
    /\ \E data \in BatchData, batchSize \in BatchSizes,
          onConflictUpdate, invalidateCache, cacheFails \in BOOLEAN, failAt \in 0..MaxBatch :
          \E r \in {SetQuery(redis, db, data,
                             SetQueryOptions(batchSize, onConflictUpdate, invalidateCache),
                             failAt, cacheFails)} :
              /\ failAt <= NumChunks(data, EffectiveBatchSize(batchSize))
              /\ db' = r.store
              /\ redis' = r.redis
              /\ last' = [op |-> "SetQuery", data |-> data,
                          opts |-> SetQueryOptions(batchSize, onConflictUpdate,
                                                   invalidateCache),
                          failAt |-> failAt, cacheFails |-> cacheFails,
                          err |-> r.err, cache |-> r.cache, before |-> db]
    /\ UNCHANGED <<pend, scannable, hitRefresh, committed, lockVars, verVars>>

\* set_single.go lines 20-58
SetSingleCall ==
    /\ \E data \in VData, OnConflictUpdate, InvalidateCache, txFails \in BOOLEAN :
          LET duplicate == ~OnConflictUpdate /\ data.id \in DOMAIN db
              ok == ~txFails /\ ~duplicate
          IN /\ db' = IF ok
                      THEN [i \in DOMAIN db \cup {data.id} |->
                               IF i = data.id THEN data ELSE db[i]]
                      ELSE db
             /\ redis' = IF ok /\ InvalidateCache
                         THEN invalidateCacheForSingle(redis, data).redis
                         ELSE redis
             /\ last' = [op |-> "SetSingle", data |-> data,
                         opts |-> [OnConflictUpdate |-> OnConflictUpdate,
                                   InvalidateCache |-> InvalidateCache],
                         err |-> IF ok THEN "nil" ELSE "set single failed",
                         cache |-> IF ok /\ InvalidateCache THEN "done" ELSE "none",
                         before |-> db]
    /\ UNCHANGED <<pend, scannable, hitRefresh, committed, lockVars, verVars>>

CommitInit ==
    /\ BatchInit
    /\ last.op = "none"

CommitNext == SetQueryCommit \/ SetSingleCall

CommitSpec == CommitInit /\ [][CommitNext]_vars

-----------------------------------------------------------------------------
(* service/get_single.go: GetSingle and GetSingleOrCreate, and              *)
(* service/service_model.go: GetQuery, one call per caller, each statement  *)
(* one step.  queryFunc is Where("age = ?", 25); `pend` holds the           *)
(* transactions that are open, with the row each has inserted.              *)

TxOps == {"GetSingle", "GetSingleOrCreate", "GetQuery"}

\* the rows of the store that queryFunc selects
Matching(store) == {i \in DOMAIN store : store[i].age = 25}

\* First: the matching row of lowest primary key
FirstOf(store) == store[CHOOSE i \in Matching(store) : \A j \in Matching(store) : i <= j]

\* an open transaction of caller c: the call that began it and the row it
\* has inserted and not committed
Tx(c, op, insert) == [c |-> c, op |-> op, insert |-> insert]

TxOf(c) == CHOOSE t \in pend : t.c = c

HasTx(c) == \E t \in pend : t.c = c

\* the primary keys in use, committed or not
UsedIds == DOMAIN db \cup {t.insert.id : t \in {u \in pend : u.insert /= NilData}}

\* AUTO_INCREMENT
NextId == IF UsedIds = {} THEN 1 ELSE 1 + CHOOSE i \in UsedIds : \A j \in UsedIds : j <= i

\* what a call returned; cause tells a refusal of the store ("store") from a
\* duplicate primary key ("duplicate")
TxResult(op, forUpdate, data, created, err, cause) ==
    [op |-> op, forUpdate |-> forUpdate, data |-> data, created |-> created,
     err |-> err, cause |-> cause]

TxInit ==
    /\ \E present \in BOOLEAN :
          db = IF present THEN (1 :> [id |-> 1, age |-> 25]) ELSE <<>>
    /\ redis = <<>>
    /\ pc = [c \in Writers |-> "idle"]
    /\ result = [c \in Writers |-> TxResult("none", FALSE, NilData, FALSE, "pending", "none")]
    /\ loaded = [c \in Writers |-> NilData]
    /\ pend = {}
    /\ last = [op |-> "none"]
    /\ loads = 0
    /\ ttlElapsed = FALSE
    /\ scannable = FALSE
    /\ hitRefresh = FALSE
    /\ committed = {}
    /\ VersionOff

txFrame == <<redis, loads, ttlElapsed, last, scannable, hitRefresh, committed, verVars>>

\* the call of caller c returns
TxReturn(c, data, created, err, cause) ==
    /\ result' = [result EXCEPT ![c] = TxResult(result[c].op, result[c].forUpdate,
                                                data, created, err, cause)]
    /\ pc' = [pc EXCEPT ![c] = "done"]

\* db.Rollback(), or a Commit that failed: the transaction is over
TxClose(c) == pend' = {t \in pend : t.c /= c}

\* get_single.go lines 25-36 and 89-97, service_model.go lines 75-83:
\* db.Begin(), which GetSingle calls only with ForUpdate.  createData carries
\* a primary key of its own (1) or none (0)
TxBegin(c) ==
    /\ pc[c] = "idle"
    /\ \E op \in TxOps, forUpdate \in BOOLEAN, id \in {0, 1} :
          /\ forUpdate => op = "GetSingle"
          /\ id = 1 => op = "GetSingleOrCreate"
          /\ pend' = IF op = "GetSingle" /\ ~forUpdate THEN pend
                     ELSE pend \cup {Tx(c, op, NilData)}
          /\ loaded' = [loaded EXCEPT ![c] = [id |-> id, age |-> 25]]
          /\ result' = [result EXCEPT ![c] =
                           TxResult(op, forUpdate, NilData, FALSE, "pending", "none")]
          /\ pc' = [pc EXCEPT ![c] = IF op = "GetQuery" THEN "count" ELSE "first"]
    /\ UNCHANGED <<db, txFrame>>

\* get_single.go lines 49-69: First in GetSingle
GetSingleFirst(c) ==
    /\ pc[c] = "first"
    /\ result[c].op = "GetSingle"
    /\ \E fails \in BOOLEAN :
          IF fails
          THEN TxClose(c) /\ TxReturn(c, NilData, FALSE, "failed to query record", "store")
          ELSE IF Matching(db) = {}
          THEN TxClose(c) /\ TxReturn(c, NilData, FALSE, "record not found", "none")
          ELSE /\ TxReturn(c, FirstOf(db), FALSE, "nil", "none")
               /\ UNCHANGED pend
    /\ UNCHANGED <<db, loaded, txFrame>>

\* get_single.go lines 107-121: First in GetSingleOrCreate
GetSingleOrCreateFirst(c) ==
    /\ pc[c] = "first"
    /\ result[c].op = "GetSingleOrCreate"
    /\ \E fails \in BOOLEAN :
          IF fails
          THEN TxClose(c) /\ TxReturn(c, NilData, FALSE, "failed to query record", "store")
          ELSE IF Matching(db) = {}
          THEN /\ pc' = [pc EXCEPT ![c] = "create"]
               /\ UNCHANGED <<pend, result>>
          ELSE /\ pc' = [pc EXCEPT ![c] = "commit"]
               /\ result' = [result EXCEPT ![c].data = FirstOf(db)]
               /\ UNCHANGED pend
    /\ UNCHANGED <<db, loaded, txFrame>>

\* get_single.go lines 123-127: Create(createData); an insert of a primary
\* key another open transaction has inserted waits for that transaction
GetSingleOrCreateCreate(c) ==
    /\ pc[c] = "create"
    /\ ~\E t \in pend : t.c /= c /\ t.insert /= NilData /\ t.insert.id = loaded[c].id
    /\ \E fails \in BOOLEAN :
          IF fails \/ loaded[c].id \in DOMAIN db
          THEN /\ TxClose(c)
               /\ TxReturn(c, NilData, FALSE, "failed to create record",
                           IF fails THEN "store" ELSE "duplicate")
          ELSE /\ pend' = {t \in pend : t.c /= c} \cup
                          {Tx(c, "GetSingleOrCreate",
                              [id |-> IF loaded[c].id = 0 THEN NextId ELSE loaded[c].id,
                               age |-> loaded[c].age])}
               /\ pc' = [pc EXCEPT ![c] = "commit"]
               /\ UNCHANGED result
    /\ UNCHANGED <<db, loaded, txFrame>>

\* service_model.go lines 93-99: Count in GetQuery
GetQueryCount(c) ==
    /\ pc[c] = "count"
    /\ \E fails \in BOOLEAN :
          IF fails
          THEN TxClose(c) /\ TxReturn(c, NilData, FALSE, "failed to count records", "store")
          ELSE /\ pc' = [pc EXCEPT ![c] = "find"]
               /\ UNCHANGED <<pend, result>>
    /\ UNCHANGED <<db, loaded, txFrame>>

\* service_model.go lines 104-109: Find in GetQuery
GetQueryFind(c) ==
    /\ pc[c] = "find"
    /\ \E fails \in BOOLEAN :
          IF fails
          THEN TxClose(c) /\ TxReturn(c, NilData, FALSE, "failed to query records", "store")
          ELSE /\ pc' = [pc EXCEPT ![c] = "commit"]
               /\ result' = [result EXCEPT ![c].data =
                                IF Matching(db) = {} THEN NilData ELSE FirstOf(db)]
               /\ UNCHANGED pend
    /\ UNCHANGED <<db, loaded, txFrame>>

\* get_single.go lines 112-115 and 129-133, service_model.go lines 112-128:
\* Commit
TxCommit(c) ==
    /\ pc[c] = "commit"
    /\ TxClose(c)
    /\ \E fails \in BOOLEAN :
          IF fails
          THEN /\ TxReturn(c, NilData, FALSE, "failed to commit transaction", "store")
               /\ UNCHANGED db
          ELSE IF TxOf(c).insert /= NilData
          THEN /\ db' = [i \in DOMAIN db \cup {TxOf(c).insert.id} |->
                            IF i = TxOf(c).insert.id THEN TxOf(c).insert ELSE db[i]]
               /\ TxReturn(c, TxOf(c).insert, TRUE, "nil", "none")
          ELSE /\ TxReturn(c, result[c].data, FALSE, "nil", "none")
               /\ UNCHANGED db
    /\ UNCHANGED <<loaded, txFrame>>

TxNext ==
    \E c \in Writers :
        \/ TxBegin(c)
        \/ GetSingleFirst(c)
        \/ GetSingleOrCreateFirst(c)
        \/ GetSingleOrCreateCreate(c)
        \/ GetQueryCount(c)
        \/ GetQueryFind(c)
        \/ TxCommit(c)

TxSpec == TxInit /\ [][TxNext]_vars

-----------------------------------------------------------------------------
(* unnamed/part_001: the batch loops of WritedownQuery (lines 38-81) and    *)
(* WritedownWithPipeline (lines 103-127), one iteration a step.  Record j   *)
(* of data is written under user:<j>; `last` holds the loop's variables.    *)

\* Go's int addition, at the width of the model
WrapInt(n) ==
    IF n >= 2^(IntBits - 1) THEN n - 2^IntBits
    ELSE IF n < -(2^(IntBits - 1)) THEN n + 2^IntBits
    ELSE n

\* no iteration is followed beyond the number after which a wrapping counter
\* has come round
MaxIterations == 2^(IntBits - 1) + 2

\* the opts.BatchSize of the calls
ChunkBatchSizes == {-1, 0, 1, 2}

\* the amount the loop adds to i: batchSize, which WritedownQuery replaces by
\* 100 when it is not positive (lines 39-42) and WritedownWithPipeline takes
\* as given (line 103)
LoopStep(op, batchSize) ==
    IF op = "WritedownQuery" THEN EffectiveBatchSize(batchSize) ELSE batchSize

\* the indices data[i:end] of one iteration, counted from 1
ChunkItems(i, step, n) == {j \in 1..n : i < j /\ j <= (IF i + step > n THEN n ELSE i + step)}

ChunkInit ==
    /\ redis = <<>>
    /\ db = <<>>
    /\ last = [op |-> "none"]
    /\ committed = {}
    /\ pend = {}
    /\ scannable = FALSE
    /\ hitRefresh = FALSE
    /\ LockOff
    /\ VersionOff

\* lines 20-42 and 87-101: the call with n records and opts.BatchSize
ChunkCall ==
    /\ last.op = "none"
    /\ \E op \in {"WritedownQuery", "WritedownWithPipeline"}, n \in 1..MaxBatch,
          batchSize \in ChunkBatchSizes :
          last' = [op |-> op, n |-> n, batchSize |-> batchSize,
                   step |-> LoopStep(op, batchSize), i |-> 0, iters |-> 0,
                   writes |-> [j \in 1..n |-> 0], largest |-> 0, returned |-> FALSE]
    /\ UNCHANGED <<redis, db, pend, scannable, hitRefresh, committed, lockVars, verVars>>

\* lines 44-81 and 103-127: one iteration of the loop, its chunk written by
\* MSet and Expire or by one pipeline
ChunkIteration ==
    /\ last.op /= "none"
    /\ ~last.returned
    /\ last.i < last.n
    /\ last.iters < MaxIterations
    /\ \E items \in {ChunkItems(last.i, last.step, last.n)} :
          /\ redis' = [k \in DOMAIN redis \cup {UserKeyOf(j) : j \in items} |->
                          IF \E j \in items : k = UserKeyOf(j)
                          THEN Entry(MarshalJSON([id |-> CHOOSE j \in items : k = UserKeyOf(j),
                                                  age |-> 25]),
                                     DefaultExpiration, "write")
                          ELSE redis[k]]
          /\ last' = [last EXCEPT
                         !.i = WrapInt(last.i + last.step),
                         !.iters = last.iters + 1,
                         !.writes = [j \in 1..last.n |->
                                        IF j \in items THEN last.writes[j] + 1
                                        ELSE last.writes[j]],
                         !.largest = IF Cardinality(items) > last.largest
                                     THEN Cardinality(items) ELSE last.largest]
    /\ UNCHANGED <<db, pend, scannable, hitRefresh, committed, lockVars, verVars>>

\* lines 83 and 129: the loop condition fails and the call returns nil
ChunkReturn ==
    /\ last.op /= "none"
    /\ ~last.returned
    /\ last.i >= last.n
    /\ last' = [last EXCEPT !.returned = TRUE]
    /\ UNCHANGED <<redis, db, pend, scannable, hitRefresh, committed, lockVars, verVars>>

ChunkNext == ChunkCall \/ ChunkIteration \/ ChunkReturn

ChunkSpec == ChunkInit /\ [][ChunkNext]_vars

-----------------------------------------------------------------------------
(* Claims about WritedownSingleWithLock *)

Loading == {c \in Callers : pc[c] = "loading"}

AllReturned == \A c \in Callers : pc[c] = "done"

\* C1: N concurrent calls on one missing key execute the store load
\* (GetSingle) at most once in total.  Stated for the runs in which no lock
\* token expired, where the claim is at its weakest.
C1_StampedeBound == ~ttlElapsed => loads <= 1

\* C2: with the record in the store, every caller that has returned holds a
\* record and no error.
C2_EveryCallerGetsRecord ==
    \A c \in Callers :
        (pc[c] = "done" /\ 1 \in DOMAIN db) => result[c].err = "nil"

\* C2 with lock contention allowed: every caller eventually returns, at least one of them with
\* the record; a caller that has returned holds either the store's record
\* (so all returned records are equal) or the lock-contention error of a
\* caller that lost the SETNX and missed the cache again after its sleep.
C2_ReturnsRecordOrContention ==
    /\ [](\A c \in Callers :
            (pc[c] = "done" /\ 1 \in DOMAIN db) =>
                \/ result[c] = [data |-> db[1], err |-> "nil"]
                \/ result[c] = [data |-> NilData, err |-> "lock contention"])
    /\ <>(/\ AllReturned
          /\ (1 \in DOMAIN db) => \E c \in Callers : result[c].err = "nil")

C2_Witness ==
    /\ AllReturned
    /\ 1 \in DOMAIN db
    /\ \E c \in Callers : result[c].err = "lock contention"
    /\ \E c \in Callers : result[c] = [data |-> db[1], err |-> "nil"]
    /\ \E c \in Callers : result[c].err = "nil" /\ redis[UserKey1].by /= c

\* C3: at every instant at most one caller is executing the store load,
\* also when the lock's TTL elapses while its holder is loading.
C3_SingleLoader == Cardinality(Loading) <= 1

\* C3 while the lock lives: at most one caller is executing the store load as long as no
\* lock token has expired before its holder deleted it.
C3_SingleLoaderWhileLockLives == ~ttlElapsed => Cardinality(Loading) <= 1

C3_Witness ==
    /\ ~ttlElapsed
    /\ \E c1, c2 \in Callers : pc[c1] = "loading" /\ pc[c2] = "sleep"


-----------------------------------------------------------------------------
(* Claims about WritedownSingleWithVersion *)

Failed == {"outdated", "txfailed", "ioerror"}

MarkerAtLeast(v) ==
    /\ RedisHas(redis, VKey)
    /\ ParseInt(redis[VKey].val).ok
    /\ ParseInt(redis[VKey].val).n >= v

\* C4: once a write with version v has succeeded, a later write with
\* v' <= v never succeeds, whatever happened in between (floor is the highest
\* version that had succeeded when the call began).
C4_LaterLowerVersionFails ==
    \A w \in Writers :
        (vpc[w] = "done" /\ vresult[w] = "ok") => vreq[w].version > vreq[w].floor

\* C4 for a marker that is still there: a call that returns while key:version holds a marker v >= v'
\* fails (version outdated, transaction failed, or an I/O error) and leaves
\* the value and the marker unchanged.
C4_MarkerRejectsLowerVersions ==
    [][\A w \in Writers :
          (Watching(w) /\ vpc'[w] = "done" /\ MarkerAtLeast(vreq[w].version))
              => (vresult'[w] \in Failed /\ redis' = redis)]_vars

C4_Witness ==
    \E c, d \in Writers :
        /\ vresult[c] = "ok"
        /\ vresult[d] = "outdated"
        /\ vreq[d].floor = vreq[c].version
        /\ vreq[d].version <= vreq[c].version
        /\ MarkerAtLeast(vreq[c].version)

\* C5: the record at key and the marker at key:version were written by the
\* same call: both are present or both absent, and they carry the record and
\* the version of one call whose EXEC ran (it returned nil, or lost its reply).
C5_ValueAndMarkerOfOneCall ==
    /\ RedisHas(redis, UserKey1) <=> RedisHas(redis, VKey)
    /\ RedisHas(redis, UserKey1) =>
          /\ redis[UserKey1].by = redis[VKey].by
          /\ \A w \in Writers :
                redis[UserKey1].by = w =>
                    /\ vresult[w] \in {"ok", "ioerror"}
                    /\ redis[UserKey1].val = MarshalJSON(vreq[w].data)
                    /\ redis[VKey].val = FormatInt(vreq[w].version)

C5_Witness ==
    \E a, b \in Writers :
        /\ vresult[a] = "ok"
        /\ vresult[b] \in {"txfailed", "ioerror"}
        /\ vreq[b].data /= vreq[a].data
        /\ redis[UserKey1].by = a
        /\ redis[VKey].by = a

\* a and b ran on a stored version 1 and nobody else raised it
RaceOnVersionOne(a, b) ==
    /\ a /= b
    /\ vpc[a] = "done" /\ vpc[b] = "done"
    /\ vreq[a].version = 2 /\ vreq[b].version = 1
    /\ vreq[a].floor = 1 /\ vreq[b].floor = 1
    /\ vresult[a] /= "ioerror" /\ vresult[b] /= "ioerror"
    /\ \A o \in Writers \ {a, b} :
          vresult[o] \in {"ok", "ioerror"} => vreq[o].version <= 1

\* C6: with version 1 stored, of two concurrent writes with versions 2 and 1
\* exactly one succeeds and the other returns a version conflict.
C6_ExactlyOneWins ==
    \A a, b \in Writers :
        RaceOnVersionOne(a, b) =>
            /\ vresult[a] = "ok"
            /\ vresult[b] = "outdated"

C6_Witness ==
    \E a, b \in Writers :
        /\ RaceOnVersionOne(a, b)
        /\ vresult[a] = "ok"
        /\ vresult[b] = "outdated"
        /\ redis[VKey].val = FormatInt(2)

-----------------------------------------------------------------------------
(* Claims about HandleWritedownSingle, WritedownSingle and LookupSingle *)

CachedRecord(k) == UnmarshalJSON(redis[k].val).rec

\* C7 for every cached record: every record a write operation has put into the cache was
\* committed to the store before, the request-data path included.
C7_CacheHoldsOnlyCommitted ==
    \A k \in DOMAIN redis : CachedRecord(k) \in committed

\* C7: a record that HandleWritedownSingle cached from an `id` request (read
\* through GetSingle) is a row some store write committed before; only a record
\* taken from the request's `data` can be cached with no store write at all.
C7_IdPathCachesCommittedRows ==
    \A k \in DOMAIN redis : redis[k].by = "id" => CachedRecord(k) \in committed

C7_Witness ==
    /\ last.op = "HandleWritedownSingle"
    /\ last.via = "id" /\ last.sync /\ last.err = "nil"
    /\ RedisHas(redis, last.key)
    /\ redis[last.key].by = "id"
    /\ CachedRecord(last.key) = last.data
    /\ last.data \in committed

\* C8: a WritedownSingle that returned no error, followed at once by
\* LookupSingle of the key, gives back the record written, for every
\* combination of NX, XX and Overwrite and whether or not the key existed.
C8_RoundTrip ==
    (scannable /\ last.op = "HandleWritedownSingle" /\ last.sync /\ last.err = "nil")
        => LookupSingle(redis, last.key, NilLookupOpts)
               = [data |-> last.data, err |-> "nil"]

-----------------------------------------------------------------------------
(* Claims about getByKeyCacheAside *)

TrailingSegment(key) == Split(key)[Len(Split(key))]

IsUnsigned(seg) == seg /= <<>> /\ \A i \in 1..Len(seg) : seg[i] \in Digits

\* the step is a call of getByKeyCacheAside(k) that missed the cache
MissOn(k) ==
    /\ last'.op = "getByKeyCacheAside"
    /\ last'.key = k
    /\ ~RedisHas(redis, k)

KeyFormatErrors == {"invalid key format", "failed to parse ID"}

\* C9: on a miss with the row in the store the call returns the row with the
\* hit flag false and populates the cache; the next call of the same key (no
\* expiry or invalidation between) returns the same record with the hit flag
\* true and queries the store zero times.
C9_MissThenHit ==
    [][\A k \in AKeys :
          (MissOn(k) /\ extractIDFromKey(k).err = "nil"
                     /\ extractIDFromKey(k).id \in DOMAIN db)
          => /\ last'.data = db[extractIDFromKey(k).id]
             /\ ~last'.hit /\ last'.err = "nil" /\ last'.dbq = 1
             /\ RedisHas(redis', k)
             /\ LET again == getByKeyCacheAside(redis', db', k, FALSE)
                IN  /\ again.data = last'.data
                    /\ again.hit /\ again.err = "nil" /\ again.dbq = 0]_vars

C9_Witness ==
    /\ last.op = "getByKeyCacheAside"
    /\ last.hit /\ last.dbq = 0 /\ last.err = "nil"
    /\ redis[last.key].by = "aside"
    /\ last.data = db[extractIDFromKey(last.key).id]

\* C10: on a miss, a key whose trailing ':'-separated segment is not an
\* unsigned integer fails with a key-format error and no store query; a key
\* whose identity has no row fails with not-found; neither writes the cache.
C10_MissErrors ==
    [][\A k \in AKeys :
          MissOn(k) =>
             /\ ~IsUnsigned(TrailingSegment(k))
                   => /\ last'.err \in KeyFormatErrors
                      /\ last'.dbq = 0
                      /\ redis' = redis
             /\ (extractIDFromKey(k).err = "nil"
                    /\ extractIDFromKey(k).id \notin DOMAIN db)
                   => /\ last'.err = "record not found"
                      /\ redis' = redis]_vars

C10_Witness ==
    /\ last.op = "getByKeyCacheAside"
    /\ last.err = "failed to parse ID"
    /\ Len(Split(last.key)) >= 2
    /\ ~IsUnsigned(TrailingSegment(last.key))
    /\ last.dbq = 0
    /\ db /= <<>>
    /\ ~RedisHas(redis, last.key)

-----------------------------------------------------------------------------
(* Claims about SetQuery and BatchUpsert *)

\* C11: when the write of chunk k fails, the records of chunks 1..k-1 remain
\* committed in the store.
C11_EarlierChunksCommitted ==
    (last.op \in {"SetQuery", "BatchUpsert"} /\ last.failed > 1)
        => \A r \in last.before : r.id \in DOMAIN db

-----------------------------------------------------------------------------
(* Claims about syncCacheToDatabase and startPeriodicSync *)

SyncOps == {"syncCacheToDatabase", "startPeriodicSync"}

Decodable(k) == UnmarshalJSON(redis[k].val).ok

\* the identities of the decodable entries that match user:*
CachedIds ==
    {UnmarshalJSON(redis[k].val).rec.id : k \in {x \in Keys(redis, UserPattern) : Decodable(x)}}

\* C12: a run over user:* skips an entry that does not decode; the entries
\* that decode are upserted and the run returns a result, not an error
\* (runs in which the store itself refused a statement set aside).
C12_UndecodableEntriesSkipped ==
    (last.op \in SyncOps /\ last.strategy = "upsert" /\ ~last.storeFailed)
        => /\ last.err = "nil"
           /\ CachedIds \subseteq DOMAIN db

\* every entry under user:* decodes and sits under the key of its identity
KeyedByIdentity ==
    \A k \in Keys(redis, UserPattern) :
        Decodable(k) /\ k = UserKeyOf(UnmarshalJSON(redis[k].val).rec.id)

\* the step is a successful upsert run that follows a successful upsert run
SecondRun ==
    /\ last.op \in SyncOps /\ last.runs >= 1
    /\ last'.op \in SyncOps /\ last'.runs = 2

C14_SkipIgnoresConflicts ==
    (/\ last.op = "syncCacheToDatabase" /\ last.strategy = "skip"
     /\ ~last.storeFailed
     /\ \A k \in Keys(redis, UserPattern) : Decodable(k))
        => /\ last.err = "nil"
           /\ CachedIds \subseteq DOMAIN db

\* C15: a tick of startPeriodicSync writes no cache entry, deletes none and
\* changes no TTL.
C15_TickLeavesCache ==
    [][last'.op = "startPeriodicSync" => redis' = redis]_vars

C15_Witness ==
    /\ last.op = "startPeriodicSync"
    /\ last.err = "nil" /\ last.synced >= 1 /\ last.runs = 2
    /\ \E k \in DOMAIN redis : redis[k].ttl /= CacheAsideTTL /\ redis[k].ttl > 0

-----------------------------------------------------------------------------
(* Claims about the translator registries *)

\* C16: the two default registries accept the same predicates: Translate of
\* the cache registry succeeds exactly when Translate of the relational
\* registry succeeds.
C16_SameOperatorsAccepted ==
    last.op = "RedisTranslate"
        => (last.err = NoError <=> GormTranslate(last.param).err = NoError)

\* the shape of a predicate is wrong: between without exactly two values,
\* like without a string, in or between without a non-empty array
WrongShape(param) ==
    \/ param.Operator = "between" /\ (~IsArray(param.Value) \/ Len(param.Value.a) /= 2)
    \/ param.Operator = "like" /\ ~IsString(param.Value)
    \/ param.Operator = "in" /\ (~IsArray(param.Value) \/ Len(param.Value.a) = 0)

Unsupported(err) == err /= NoError /\ err[1] = "unsupported operator"

\* C18: Translate of either registry returns an unsupported-operator error
\* for an operator it has no translator for, an invalid-predicate error for a
\* predicate of the wrong shape, and no filter with any error.
C18_TranslateErrors ==
    last.op \in {"GormTranslate", "RedisTranslate"}
        => LET registered == IF last.op = "GormTranslate"
                             THEN GormOperators ELSE RedisOperators
           IN  /\ last.param.Operator \notin registered => Unsupported(last.err)
               /\ (last.param.Operator \in registered /\ WrongShape(last.param))
                      => (last.err /= NoError /\ ~Unsupported(last.err))
               /\ last.err /= NoError => last.filter = NoFilter

\* Translate of the registry a TranslateBatch call belongs to
TranslateOf(op, param) ==
    IF op = "GormTranslateBatch" THEN GormTranslate(param) ELSE RedisTranslate(param)

\* the predicates of the last call that its registry refuses
Failing == {i \in 1..Len(last.params) : TranslateOf(last.op, last.params[i]).err /= NoError}

FirstFailing == CHOOSE i \in Failing : \A j \in Failing : i <= j

\* C19: TranslateBatch returns the translations of the predicates in their
\* order, or, when a predicate fails, the error of the first such predicate
\* and no filter, without translating the predicates after it.
C19_OrderAndShortCircuit ==
    last.op \in {"GormTranslateBatch", "RedisTranslateBatch"}
        => IF Failing = {}
           THEN /\ last.err = NoError
                /\ Len(last.filters) = Len(last.params)
                /\ \A i \in 1..Len(last.params) :
                      last.filters[i] = TranslateOf(last.op, last.params[i]).filter
           ELSE /\ last.err = TranslateOf(last.op, last.params[FirstFailing]).err
                /\ last.filters = <<>>
                /\ last.calls = FirstFailing

\* the first predicate failed and the one after it was not looked at
C19_Witness ==
    /\ last.op = "RedisTranslateBatch"
    /\ Len(last.params) = 2
    /\ last.err = <<"unsupported operator", "eq">>
    /\ last.calls = 1
    /\ RedisTranslate(last.params[2]).err /= NoError

-----------------------------------------------------------------------------
(* Claims about ApplyRedisFilters and ApplyGormFilters *)

IdOfKey(k) == CHOOSE i \in 1..4 : UserKeyOf(i) = k

\* C17: for a predicate list both registries translate, the keys
\* ApplyRedisFilters selects among the cached rows are the keys of the rows
\* the query with the Gorm filters selects.
C17_FilterSymmetry ==
    (/\ last.op = "ApplyRedisFilters"
     /\ last.err = NoError
     /\ last.keys = RowKeys
     /\ GormTranslateBatch(last.params).err = NoError)
        => {IdOfKey(k) : k \in Range(last.result)}
              = ApplyGormFilters(db, GormTranslateBatch(last.params).filters)

\* the entry under k passes every filter of the last call
PassesAll(k) == \A i \in 1..Len(last.filters) : Keeps(redis, k, last.filters[i])

\* C20: ApplyRedisFilters returns the initial keys whose entry passes every
\* filter, in their order; the same keys for every order of the filters; the
\* initial keys when there is no filter.
C20_FoldsWithAnd ==
    (last.op = "ApplyRedisFilters" /\ last.err = NoError)
        => /\ last.result = SelectSeq(last.keys, PassesAll)
           /\ Range(last.result) \subseteq Range(last.keys)
           /\ \A p \in Permutations(1..Len(last.filters)) :
                 ApplyRedisFilters(redis, last.keys,
                                   [i \in 1..Len(last.filters) |-> last.filters[p[i]]],
                                   0).keys = last.result
           /\ Len(last.filters) = 0 => last.result = last.keys

\* two filters that each keep one row and together keep none
C20_Witness ==
    /\ last.op = "ApplyRedisFilters"
    /\ last.err = NoError
    /\ Len(last.filters) = 2
    /\ last.result = <<>>
    /\ \E k \in Range(last.keys) : Keeps(redis, k, last.filters[1])
    /\ \E k \in Range(last.keys) : Keeps(redis, k, last.filters[2])

-----------------------------------------------------------------------------
(* Claims about the numeric cache filters *)

\* the last call applied one filter of the given kinds to the keys of the rows
SingleFilter(kinds) ==
    /\ last.op = "ApplyRedisFilters"
    /\ last.err = NoError
    /\ Len(last.filters) = 1
    /\ last.filters[1].kind \in kinds

\* the value of the filtered member in the entry under k (the entries of the
\* model that decode carry it at the top level or inside data)
FieldValue(k, field) == FieldOf(DecodeMap(redis[k].val).m, field)

\* C21: a between filter with numeric bounds selects exactly the entries whose
\* numeric member v has min <= v <= max, the bounds included.
C21_BetweenClosedInterval ==
    (/\ SingleFilter({"RedisBetweenFilter"})
     /\ last.filters[1].Min.t = "num" /\ last.filters[1].Max.t = "num")
        => Range(last.result)
              = {k \in Range(last.keys) \cap DOMAIN redis :
                    /\ DecodeMap(redis[k].val).ok
                    /\ FieldValue(k, last.filters[1].Field).exists
                    /\ FieldValue(k, last.filters[1].Field).val.t = "num"
                    /\ last.filters[1].Min.n <= FieldValue(k, last.filters[1].Field).val.n
                    /\ FieldValue(k, last.filters[1].Field).val.n <= last.filters[1].Max.n}

\* age between [1,1] over the rows with age 1 and age 2 selects the first only
C21_Witness ==
    /\ SingleFilter({"RedisBetweenFilter"})
    /\ last.filters[1].Field = "age"
    /\ last.filters[1].Min = Num(1) /\ last.filters[1].Max = Num(1)
    /\ db[1].age = Num(1) /\ db[2].age = Num(2)
    /\ last.keys = RowKeys
    /\ last.result = <<UserKeyOf(1)>>

NumericKinds ==
    {"RedisGreaterThanFilter", "RedisGreaterThanOrEqualFilter", "RedisLessThanFilter",
     "RedisLessThanOrEqualFilter", "RedisBetweenFilter"}

\* the values the last filter compares with
BoundsOf(f) == IF f.kind = "RedisBetweenFilter" THEN {f.Min, f.Max} ELSE {f.Value}

\* C22: a numeric filter selects no entry whose member is not a number or a
\* numeric text, and no entry at all when a bound of the predicate is not.
C22_NumericFiltersFailClosed ==
    SingleFilter(NumericKinds)
        => \A k \in Range(last.result) :
              /\ toFloat64(FieldValue(k, last.filters[1].Field).val).ok
              /\ \A b \in BoundsOf(last.filters[1]) : toFloat64(b).ok

-----------------------------------------------------------------------------
(* Claims about executeLookup *)

\* the predicate list is rejected by the registry that executeLookup hands it to
RejectedList(filters) ==
    \/ RedisTranslateBatch(filters).err /= NoError
    \/ GormTranslateBatch(filters).err /= NoError

\* C23: when executeLookup is given a predicate list that fails translation
\* or validation, it returns the error without having sent any command to the
\* cache or to the relational store (no KEYS, no custom filter call, no MGET,
\* no query).
C23_FailFastBeforeIO ==
    (/\ last.op = "executeLookup"
     /\ Len(last.filters) > 0
     /\ RejectedList(last.filters)
     /\ \/ last.err = <<"invalid filters">> \o RedisTranslateBatch(last.filters).err
        \/ last.err = <<"invalid gorm filters">> \o GormTranslateBatch(last.filters).err)
        => last.io = {}

\* the rows the cache held for the keys that remained, at the MGET
CachedRows(rd, keys) ==
    [k \in Range(keys) \cap DOMAIN rd |-> DecodeRow(rd[k].val).row]

\* the rows of the store that pass the predicates, under their cache keys
StoreRows(store, filters) ==
    LET ids == ApplyGormFilters(store, GormTranslateBatch(filters).filters)
    IN  [k \in {UserKeyOf(i) : i \in ids} |-> store[CHOOSE i \in ids : k = UserKeyOf(i)]]

\* the first half of C24, which both statements share: the fallback is taken
\* exactly when no key remains and predicates or the flag ask for it; taken
\* without error, it returns the rows of the store and caches them
FallbackExactly ==
    /\ last.fallback <=> /\ last.remained = <<>>
                         /\ (Len(last.filters) > 0 \/ last.fallbackToDB)
    /\ (last.fallback /\ last.err = NoError) =>
          /\ "query" \in last.io
          /\ last.res = StoreRows(db, last.filters)
          /\ last.fault /= "pipeline" =>
                \A k \in DOMAIN last.res :
                    RedisHas(redis, k) /\ DecodeRow(redis[k].val).row = last.res[k]
    /\ (~last.fallback /\ last.err = NoError) =>
          last.res = CachedRows(redis, last.remained)

\* C24 as stated: executeLookup performs the store fallback if and only if
\* zero keys remain after narrowing and (predicates were supplied or
\* fallbackToDB is set); otherwise it returns the narrowed key-to-record map
\* read from the cache and does not query the store.
C24_FallbackIffNoKeys ==
    (last.op = "executeLookup" /\ last.narrowed)
        => /\ FallbackExactly
           /\ ~last.fallback => "query" \notin last.io

\* C24 as the code has it: without the fallback the store is queried only
\* when fallbackToDB is set and a key that remained is no longer in the cache
\* at the MGET.
C24_FallbackIffNoKeysAmended ==
    (last.op = "executeLookup" /\ last.narrowed)
        => /\ FallbackExactly
           /\ (~last.fallback /\ "query" \in last.io) =>
                 /\ last.fallbackToDB
                 /\ \E k \in Range(last.remained) : ~RedisHas(redis, k)

\* predicates supplied, no cached row passes them, the store has one that does
C24_Witness ==
    /\ last.op = "executeLookup"
    /\ last.filters = <<FilterParam("age", "between", Arr(<<Num(1), Num(1)>>))>>
    /\ ~last.fallbackToDB
    /\ last.before = <<>>
    /\ last.fallback
    /\ last.err = NoError
    /\ DOMAIN last.res = {UserKeyOf(1)}
    /\ RedisHas(redis, UserKeyOf(1))

-----------------------------------------------------------------------------
(* Claims about concurrent cache writers *)

\* the call of writer w takes a step
Steps(w) == Busy(w) /\ CallOf(w) \notin pend' /\ last'.op /= "cancel"

\* the call of writer w returns in this step
Returns(w) == Steps(w) /\ ~\E q \in pend' : q.w = w

\* C25: WritedownSingle called with both NX and XX set fails with an
\* invalid-options error and leaves the cache unchanged.
C25_BothFlagsRejected ==
    [][\A w \in Writers :
          (/\ Returns(w)
           /\ CallOf(w).op = "WritedownSingle"
           /\ CallOf(w).opts.NX /\ CallOf(w).opts.XX)
              => /\ result'[w] = "invalid options"
                 /\ redis' = redis]_vars

\* C26: WritedownSingleAsync returns to the caller without waiting for the
\* cache write; cancelling the caller's context after it returned does not
\* abort the write (a goroutine whose commands do not fail writes the record,
\* cancelled caller or not); and the goroutine's error never reaches the
\* caller, whose call stays returned.
C26_AsyncDetached ==
    [][/\ last'.op = "WritedownSingleAsync" =>
             /\ redis' = redis
             /\ result'[last'.w] = "returned"
             /\ \E q \in pend' : q.w = last'.w /\ q.async /\ q.at \in {"exists", "set"}
       /\ \A w \in Writers :
             (Steps(w) /\ CallOf(w).async) =>
                /\ result' = result
                /\ (CallOf(w).at = "set" /\ ~last'.fails) =>
                      /\ last'.err = "nil"
                      /\ RedisHas(redis', UserKey1)
                      /\ redis'[UserKey1].val = MarshalJSON(DataOf(w))
                      /\ redis'[UserKey1].by = w]_vars

\* the goroutine wrote the record after the caller's context was cancelled
C26_Witness ==
    /\ last.op = "WritedownSingle"
    /\ last.call.async
    /\ last.call.cancelled
    /\ last.err = "nil"
    /\ result[last.call.w] = "returned"
    /\ RedisHas(redis, UserKey1)
    /\ redis[UserKey1].by = last.call.w

\* a step of a call that must not overwrite leaves the value of an existing
\* key as it was
KeepsExisting(w) ==
    RedisHas(redis, UserKey1) =>
        RedisHas(redis', UserKey1) /\ redis'[UserKey1].val = redis[UserKey1].val

\* C27: WritedownQuery with Overwrite = false never changes the value of a
\* key that already exists in the cache, including when another writer
\* creates the key between the existence check and the multi-set.
C27_QueryKeepsExisting ==
    [][\A w \in Writers :
          (/\ Steps(w)
           /\ CallOf(w).op = "WritedownQuery"
           /\ ~CallOf(w).opts.Overwrite)
              => KeepsExisting(w)]_vars

\* C28: WritedownSingle with Overwrite = false (and NX, XX unset) does not
\* overwrite an existing key: an existing value is left unchanged, also when
\* two such writers race on an initially absent key (the second to store
\* would change the value the first stored).
C28_SingleKeepsExisting ==
    [][\A w \in Writers :
          (/\ Steps(w)
           /\ CallOf(w).op = "WritedownSingle"
           /\ ~CallOf(w).opts.Overwrite
           /\ ~CallOf(w).opts.NX /\ ~CallOf(w).opts.XX)
              => KeepsExisting(w)]_vars

-----------------------------------------------------------------------------
(* Claims about the lock token's life *)

\* the token lock:<key> is there and was set by caller c
Holds(c) ==
    /\ RedisHas(redis, LockKeyOf(UserKey1))
    /\ redis[LockKeyOf(UserKey1)].by = c

\* C29: the release step of a WritedownSingleWithLock caller never removes a
\* lock token that is currently held by a different caller.
C29_ReleaseOnlyOwnToken ==
    [][\A c \in Callers :
          (/\ pc[c] = "unlock"
           /\ pc'[c] = "done"
           /\ \E d \in Callers \ {c} : Holds(d))
              => RedisHas(redis', LockKeyOf(UserKey1))]_vars

-----------------------------------------------------------------------------
(* Claims about the cache after a store write *)

\* the transaction of the SetQuery in `last` went through
QueryCommitted ==
    Transaction(last.before, last.data, EffectiveBatchSize(last.opts.BatchSize),
                last.opts.OnConflictUpdate, last.failAt).failed = 0

\* C31: after the store write of SetQuery or SetSingle has committed, a
\* failure of the cache operation that follows is swallowed: the call returns
\* success and the store keeps the committed rows; when the transaction fails
\* the call returns an error and performs no cache operation.
C31_CacheFailureSwallowed ==
    /\ (last.op = "SetQuery" /\ Len(last.data) > 0) =>
          /\ QueryCommitted =>
                /\ last.err = "nil"
                /\ db = Transaction(last.before, last.data,
                                    EffectiveBatchSize(last.opts.BatchSize),
                                    last.opts.OnConflictUpdate, last.failAt).store
                /\ (last.opts.InvalidateCache /\ last.cacheFails) => last.cache = "failed"
          /\ ~QueryCommitted =>
                /\ last.err /= "nil"
                /\ last.cache = "none"
                /\ db = last.before
    /\ last.op = "SetSingle" =>
          /\ last.err = "nil" =>
                last.data.id \in DOMAIN db /\ db[last.data.id] = last.data
          /\ last.err /= "nil" => (last.cache = "none" /\ db = last.before)

\* rows committed, the invalidation failed, success returned, the entries
\* still cached
C31_Witness ==
    /\ last.op = "SetQuery"
    /\ last.opts.InvalidateCache
    /\ last.cacheFails
    /\ last.err = "nil"
    /\ db /= last.before
    /\ Keys(redis, CacheKeyName \o <<":", "*">>) /= {}

\* C33: SetSingle with InvalidateCache = true removes the cache entry of the
\* written record after the commit: once it has returned, no cache entry
\* holds an earlier value of that record.
C33_SetSingleInvalidates ==
    (last.op = "SetSingle" /\ last.opts.InvalidateCache /\ last.err = "nil")
        => \A k \in DOMAIN redis :
               (UnmarshalJSON(redis[k].val).ok
                /\ UnmarshalJSON(redis[k].val).rec.id = last.data.id)
                   => UnmarshalJSON(redis[k].val).rec = last.data

-----------------------------------------------------------------------------
(* Claims about the single-key lookup when the cache write fails *)

\* C34: when getByKeyCacheAside loads a record from the store on a miss and
\* the cache SET that follows fails, the caller of HandleGetByKey still
\* receives the store's record rather than a failure.
C34_RecordDespiteSetFailure ==
    (/\ last.op = "getByKeyCacheAside"
     /\ last.dbq = 1
     /\ last.err = "failed to cache data (returned DB data)")
        => /\ HandleGetByKey(last).status = 200
           /\ HandleGetByKey(last).data = last.data
           /\ last.data \in RowsOf(db)

-----------------------------------------------------------------------------
(* Claims about the TTL of the keys WritedownQuery writes *)

\* C32: after WritedownQuery returns without error, every cache key it wrote
\* carries a TTL equal to opts.Expiration; no key written by the multi-set
\* is left without an expiry.
C32_WrittenKeysExpire ==
    (/\ last.op = "WritedownQuery"
     /\ last.err = "nil"
     /\ last.call.at = "expire"
     /\ RedisHas(redis, UserKey1)
     /\ redis[UserKey1].by = last.call.w)
        => redis[UserKey1].ttl = last.call.opts.Expiration

-----------------------------------------------------------------------------
(* Claims about HandleCount *)

\* C35: a count request never falls back to the relational store and never
\* writes to the cache: for every filter list it only reads cache keys and
\* payloads.
C35_CountOnlyReadsCache ==
    last.op = "HandleCount"
        => /\ ~last.fallback
           /\ last.io \subseteq {"KEYS", "custom", "MGET"}
           /\ redis = last.before

-----------------------------------------------------------------------------
(* Claims about reconciliation after a store update *)

\* C36: a store update committed through SetSingle is never reverted by a
\* later reconciliation run: the run that follows the commit leaves the row
\* at the committed value, even if the cache still held the record's earlier
\* value when the run scanned it.
C36_SyncKeepsCommitted ==
    [][(/\ last.op = "SetSingle"
        /\ last.err = "nil"
        /\ last'.op \in {"syncCacheToDatabase", "startPeriodicSync"}
        /\ last'.strategy = "upsert")
           => /\ last.data.id \in DOMAIN db'
              /\ db'[last.data.id] = last.data]_vars

-----------------------------------------------------------------------------
(* Claims about the life of the version marker *)

\* C37: no orphan version markers: in every reachable state the marker
\* key:version exists only if the value at key exists.
C37_NoOrphanMarker == RedisHas(redis, VKey) => RedisHas(redis, UserKey1)

-----------------------------------------------------------------------------
(* Claims about the read operations' transactions *)

\* every caller ran GetSingleOrCreate and has returned, the store refusing
\* no statement
AllGetOrCreateReturned ==
    \A c \in Writers :
        /\ pc[c] = "done"
        /\ result[c].op = "GetSingleOrCreate"
        /\ result[c].cause /= "store"

\* C38: for any number of concurrent GetSingleOrCreate calls with the same
\* query on a store that holds no matching record, at most one record is
\* created: exactly one caller returns created = true and all others return
\* the same record with created = false.
C38_AtMostOneCreated ==
    AllGetOrCreateReturned
        => /\ Cardinality(Matching(db)) = 1
           /\ Cardinality({c \in Writers : result[c].created}) <= 1
           /\ \A c \in Writers :
                 result[c].err = "nil" /\ result[c].data = FirstOf(db)

\* C39: every store transaction opened by GetQuery, GetSingle (ForUpdate
\* included) or GetSingleOrCreate is committed or rolled back before the call
\* returns, on success and on every error path.
C39_NoTransactionLeftOpen ==
    \A c \in Writers : pc[c] = "done" => ~HasTx(c)

-----------------------------------------------------------------------------
(* Claims about the batch loops of the cache writers *)

\* C40: for any non-empty data and any opts.BatchSize (0 and negative values
\* included), WritedownWithPipeline and WritedownQuery terminate and write
\* each record exactly once, in chunks of at most the effective batch size:
\* the loop runs at most once per record, no chunk is larger than the
\* effective batch size, and at the return every record has been written
\* once.
C40_BatchLoopsCoverInput ==
    last.op \in {"WritedownQuery", "WritedownWithPipeline"}
        => /\ last.iters <= last.n
           /\ last.largest <= EffectiveBatchSize(last.batchSize)
           /\ \A j \in 1..last.n : last.writes[j] <= 1
           /\ last.returned => \A j \in 1..last.n : last.writes[j] = 1

=============================================================================
